---- MODULE Spec2Model ----
(***************************************************************************)
(* Report rendering of restudCLI.                                          *)
(*                                                                         *)
(*   SpecYaml    restud/render.py        generate_report (report.yaml)     *)
(*   SpecJinja   restud/render_jinja2.py ReportRenderer.generate_report    *)
(*   SpecLegacy  .config/restud/DCAS_scheme.py generate_report             *)
(*   SpecCli     restud/cli.py           report, accept, revise            *)
(*   SpecRepo    restud/cli.py           get_report_status, pull, download *)
(*                                       and the helpers of download       *)
(*                                                                         *)
(* Python strings are TLA+ strings; they are taken apart character by      *)
(* character with Len and SubSeq.  A Python value whose type the code      *)
(* inspects (None / int / str / list, or a key that is absent) is a        *)
(* record [kind, n, s, l].                                                 *)
(***************************************************************************)
EXTENDS Integers, Sequences, FiniteSets, TLC

VARIABLES
    \* ---- restud/render.py, generate_report
    ypc,            \* position in generate_report
    content,        \* the dict loaded from tags file + report.yaml (line 145)
    template_file,  \* the template file, as read at line 143 (the file is never written)
    template_text,  \* the template, as rewritten so far
    report,         \* the validated ReportTemplate (line 153)
    rule_i,         \* index of the rule the loop of line 70 is at
    requests,       \* the local list `requests` of to_template_format
    req_src,        \* history: req_src[k] is the index of the rule that appended requests[k]
    view,           \* what to_template_format returned (line 155)
    parsed_content, \* line 157 / 168
    output,         \* what generate_report returned
    yerr,           \* the exception generate_report raised, "" if none
    debug_log,      \* /tmp/debug_render.log: [exists, lines]
    \* ---- restud/render_jinja2.py, ReportRenderer.generate_report
    jpc,            \* position in generate_report
    report_file,    \* report.toml as loaded (the file itself is never written)
    jreport,        \* the dict `report`, mutated in place
    snippets,       \* the dict load_snippets returned
    jrule_i,        \* index of the rule the loop of line 164 is at
    comments,       \* the local list `comments` of build_comments_from_dcas
    com_src,        \* history: com_src[k] = <<rule index, comment index>>, comment index 0 for the text fallback
    context,        \* the dict handed to the template (after filter_empty_sections)
    jtemplate,      \* what env.get_template found (line 89): [found, parts]
    joutput,        \* what generate_report returned
    jerr,           \* the exception generate_report raised, "" if none
    \* ---- .config/restud/DCAS_scheme.py, generate_report
    lpc,            \* position in generate_report
    ldoc,           \* the YAML document of dcas_path
    ltemplate,      \* the template, as rewritten so far
    lcontent,       \* what DCASTemplate.to_template_format returned
    lparsed,        \* parsed_content
    loutput,        \* what generate_report returned
    lerr,           \* the exception raised, "" if none
    \* ---- restud/cli.py, the commands report, accept and revise
    command,        \* "report", "accept", "revise"; "none" when a renderer is called directly
    cpc,            \* position in the command
    branch_name,    \* the current git branch
    no_commit,      \* the --no-commit flag
    validation,     \* what validate_toml returned: [is_valid, msg]
    template_name,  \* the template the command selected
    out_file,       \* response.txt (report, revise) or accept.txt (accept)
    writes,         \* history: how often the command opened out_file for writing
    clipboard,      \* what pbcopy was handed
    git_log,        \* the git add / commit / tag / push commands run, in order
    stderr,         \* the lines echoed with err=True
    cerr,           \* the exception that left the command, "" if none
    community_checked, \* accept has called _check_community
    \* ---- restud/cli.py, the functions that look at the working directory
    op,             \* the function called, "none" when none is
    opc,            \* position in it
    report_yaml,    \* report.yaml as get_report_status finds it
    status,         \* what get_report_status returned
    package_found,  \* pull: the package directory exists
    current_branch, \* the branch checked out, "" where there is no repository yet
    branch_before,  \* history: the branch checked out when the function was called
    local_branches, \* the local branches
    remote_branches,\* the branches of origin, as the last fetch saw them
    git_cmds,       \* history: the git commands this call ran that change the repository, in order
    repo_before,    \* history: [local, remote], the branches there were when the function was called
    status_lines,   \* download: the lines `git status --porcelain` prints before the download
    n_files,        \* download: how many files the draft record lists
    has_changes,    \* download: `git status --porcelain` printed something after `git add .`
    effects,        \* history: what this call did outside git, in order
    created,        \* history: the branch this call created, "" if none
    zenodo_saved,   \* this call wrote the file .zenodo
    tree,           \* _commit_changes: the files os.walk('.') finds, path |-> [size, tracked]
    gitignore,      \* the text of .gitignore, absent if there is no such file
    large_report,   \* LARGE_FILES.txt exists
    added,          \* the paths `git add .` has staged
    folder,         \* _empty_folder: what os.listdir('.') names, name |-> "file" or "dir"
    folder_before,  \* history: the folder when _empty_folder was called
    cookie_file,    \* _get_cookie: restud-cookie.json, [value, exp_date], absent if not there
    cookie_before,  \* history: the cookie file when _get_cookie was called
    now,            \* datetime.now(): [day, midnight]
    cookies_stored, \* history: how many cookies this call has written to the file
    cookie_value,   \* what _get_cookie returned
    operr           \* the exception or exit that ended the function, "" if none

yvars == <<ypc, content, template_file, template_text, report, rule_i, requests, req_src, view,
           parsed_content, output, yerr, debug_log>>
jvars == <<jpc, report_file, jreport, snippets, jrule_i, comments, com_src, context,
           jtemplate, joutput, jerr>>
lvars == <<lpc, ldoc, ltemplate, lcontent, lparsed, loutput, lerr>>
cvars_but_cpc == <<command, branch_name, no_commit, validation, template_name, out_file, writes,
                   clipboard, git_log, stderr, cerr, community_checked>>
cvars == <<command, cpc, branch_name, no_commit, validation, template_name, out_file, writes,
           clipboard, git_log, stderr, cerr, community_checked>>
statusvars == <<report_yaml, status>>
dlvars == <<repo_before, status_lines, n_files, has_changes, effects, created, zenodo_saved>>
gitvars == <<package_found, current_branch, branch_before, local_branches, remote_branches, git_cmds,
             operr, dlvars>>
ccvars == <<tree, gitignore, large_report, added>>
foldervars == <<folder, folder_before>>
cookievars == <<cookie_file, cookie_before, now, cookies_stored, cookie_value>>
rvars == <<op, opc, statusvars, gitvars, ccvars, foldervars, cookievars>>
vars == <<yvars, jvars, lvars, cvars, rvars>>

\* ------------------------------------------------------------------ bounds
\* Most rules in one report.
MaxRules == 2
\* Greatest number of a version branch.
MaxVersion == 10

\* ------------------------------------------------------- Python values
PyAbsent == [kind |-> "absent", n |-> 0, s |-> "", l |-> <<>>]
PyNone == [kind |-> "none", n |-> 0, s |-> "", l |-> <<>>]
PyInt(i) == [kind |-> "int", n |-> i, s |-> "", l |-> <<>>]
PyStr(x) == [kind |-> "str", n |-> 0, s |-> x, l |-> <<>>]
PyList(x) == [kind |-> "list", n |-> 0, s |-> "", l |-> x]

\* bool(v)
Truthy(v) ==
    CASE v.kind = "int" -> v.n # 0
      [] v.kind = "str" -> v.s # ""
      [] v.kind \in {"list", "objs"} -> v.l # <<>>
      [] OTHER -> FALSE

\* str(v), for the values format() is handed
PyToStr(v) ==
    CASE v.kind = "int" -> ToString(v.n)
      [] v.kind = "str" -> v.s
      [] OTHER -> "None"

\* ------------------------------------------------------- Python str
Char(s, i) == SubSeq(s, i, i)

\* s[i-1:].startswith(sub), i counted from 1
StartsWithAt(s, sub, i) ==
    /\ i + Len(sub) - 1 <= Len(s)
    /\ SubSeq(s, i, i + Len(sub) - 1) = sub

\* s.find(sub, i-1) + 1: the first place at or after i where sub starts, 0 if none
FirstAt(s, sub, i) ==
    LET at == {j \in i..Len(s) : StartsWithAt(s, sub, j)}
    IN  IF at = {} THEN 0 ELSE CHOOSE j \in at : \A k \in at : j <= k

\* s.replace(old, new) for a non-empty old: left to right, non-overlapping
RECURSIVE ReplaceFrom(_, _, _, _)
ReplaceFrom(s, old, new, i) ==
    LET j == FirstAt(s, old, i)
    IN  IF j = 0 THEN SubSeq(s, i, Len(s))
        ELSE SubSeq(s, i, j - 1) \o new \o ReplaceFrom(s, old, new, j + Len(old))

Replace(s, old, new) == ReplaceFrom(s, old, new, 1)

\* sub in s, for a non-empty sub
Contains(s, sub) == FirstAt(s, sub, 1) # 0

IsSpace(c) == c \in {" ", "\n", "\t"}

\* s.split(): the maximal runs of non-whitespace characters
RECURSIVE SplitFrom(_, _, _)
SplitFrom(s, i, cur) ==
    IF i > Len(s) THEN (IF cur = "" THEN <<>> ELSE <<cur>>)
    ELSE IF IsSpace(Char(s, i))
         THEN (IF cur = "" THEN <<>> ELSE <<cur>>) \o SplitFrom(s, i + 1, "")
         ELSE SplitFrom(s, i + 1, cur \o Char(s, i))

Split(s) == SplitFrom(s, 1, "")

\* sep.join(items)
RECURSIVE Join(_, _)
Join(items, sep) ==
    IF items = <<>> THEN ""
    ELSE IF Len(items) = 1 THEN items[1]
    ELSE items[1] \o sep \o Join(Tail(items), sep)

\* ------------------------------------------------- restud/render.py
ResponseType == {"yes", "no", "maybe", "na"}

\* pydantic's choice in Union[DCASRuleItemV2, DCASRuleItemV3]: both models accept a
\* rule that has a name (V2 ignores the extra key), and the match that sets more
\* fields is taken; a rule without a name validates as DCASRuleItemV2 only.
RuleModel(rule) == IF rule.name.kind = "str" THEN "V3" ELSE "V2"

\* model_validate of one element of DCAS_rules
RuleValid(rule) ==
    /\ rule.description.kind = "str"
    /\ rule.answer \in ResponseType
    /\ rule.comment.kind \in {"none", "str", "list"}
    /\ rule.dcas_reference.kind = "str"

\* ReportTemplate.from_dict: does model_validate accept the dict
ReportValid(c) ==
    /\ c.version.kind = "int"
    /\ \A k \in {"author", "salutation", "email", "title"} : c[k].kind = "str"
    /\ c.manuscript_id.kind \in {"absent", "none", "str"}
    /\ c.praise.kind \in {"absent", "none", "str"}
    /\ c.recommendations.kind \in {"absent", "none", "str", "list"}
    /\ c.tags.kind = "list"
    /\ \A i \in 1..Len(c.DCAS_rules) : RuleValid(c.DCAS_rules[i])

\* str() of the ValidationError model_validate raises for the rules at or after i whose
\* answer is not a ResponseType: for each, the location in both members of the Union and
\* the rejected input
RECURSIVE ValidationLines(_, _)
ValidationLines(rules, i) ==
    IF i > Len(rules) THEN ""
    ELSE IF rules[i].answer \in ResponseType THEN ValidationLines(rules, i + 1)
    ELSE "\nDCAS_rules." \o ToString(i - 1) \o ".DCASRuleItemV2.answer"
         \o "\n  Input should be 'yes', 'no', 'maybe' or 'na' [type=enum, input_value='"
         \o rules[i].answer \o "', input_type=str]"
         \o "\nDCAS_rules." \o ToString(i - 1) \o ".DCASRuleItemV3.answer"
         \o "\n  Input should be 'yes', 'no', 'maybe' or 'na' [type=enum, input_value='"
         \o rules[i].answer \o "', input_type=str]"
         \o ValidationLines(rules, i + 1)

ValidationMessage(c) == "validation errors for ReportTemplate" \o ValidationLines(c.DCAS_rules, 1)

\* ensure_list (mode='before') and the field default
ensure_list(v) == IF v.kind \in {"absent", "none"} THEN PyList(<<>>) ELSE v

\* x or "" for an Optional[str]
OrEmptyStr(v) == IF Truthy(v) THEN v ELSE PyStr("")

\* x or [] for recommendations
OrEmptyList(v) == IF Truthy(v) THEN v ELSE PyList(<<>>)

\* the validated model
from_dict(c) ==
    [c EXCEPT !.recommendations = ensure_list(c.recommendations),
              !.manuscript_id = IF @.kind = "absent" THEN PyNone ELSE @,
              !.praise = IF @.kind = "absent" THEN PyNone ELSE @,
              !.requests = PyAbsent,
              !.DCAS_rules = [i \in 1..Len(c.DCAS_rules) |->
                                 [c.DCAS_rules[i] EXCEPT !.model = RuleModel(c.DCAS_rules[i])]]]

\* RuleSkipped without the test of line 71
RuleSkipped_NoYesTest(rule) == rule.answer = "na" /\ rule.comment.kind = "none"

\* the two `continue`s of the loop
RuleSkipped(rule) ==
    \/ rule.answer = "yes"
    \/ rule.answer = "na" /\ rule.comment.kind = "none"

\* FormatItem without the space before the parenthesis
FormatItem_NoSpace(comment, reference) == comment \o "(" \o reference \o ")"

\* f"{comment} ({rule.dcas_reference})"
FormatItem(comment, reference) == comment \o " (" \o reference \o ")"

\* RuleRequests with the comments of a list taken last to first
RuleRequests_Reversed(rule) ==
    IF rule.comment.kind = "list"
    THEN [k \in 1..Len(rule.comment.l) |->
             FormatItem(rule.comment.l[Len(rule.comment.l) + 1 - k], rule.dcas_reference.s)]
    ELSE IF Truthy(rule.comment)
         THEN <<FormatItem(rule.comment.s, rule.dcas_reference.s)>>
         ELSE <<>>

\* what one iteration appends to `requests`
RuleRequests(rule) ==
    IF rule.comment.kind = "list"
    THEN [k \in 1..Len(rule.comment.l) |->
             FormatItem(rule.comment.l[k], rule.dcas_reference.s)]
    ELSE IF Truthy(rule.comment)
         THEN <<FormatItem(rule.comment.s, rule.dcas_reference.s)>>
         ELSE <<>>

\* the f-string of the debug line reads rule.name, which DCASRuleItemV2 does not have
DebugLineRaises(rule) == rule.model = "V2"


\* ordered_list (render.py)
ordered_list(list_items) ==
    IF list_items = <<>> THEN ""
    ELSE IF Len(list_items) = 1 THEN list_items[1]
    ELSE Join([i \in 1..Len(list_items) |-> ToString(i) \o ". " \o list_items[i]], "\n")

\* parse (render.py)
parse(value) == IF value.kind = "list" THEN PyStr(ordered_list(value.l)) ELSE value

PluralRequests == "please make the following changes:"
SingularRequests == "please make the following change:"
PluralRecommendations == "please consider the following recommendations"
SingularRecommendations == "please consider the following recommendation"

\* requests_count / recommendations_count: 1 unless the value is a list;
\* content.get(key, []) is a list for a missing key too, and content[key] then raises
CountRaises(v) == v.kind = "absent"
Count(v) == IF v.kind = "list" THEN Len(v.l) ELSE 1

\* ReplaceRequestsPhrase with `<= 1` for `== 1`
ReplaceRequestsPhrase_AtMostOne(template, requests_count) ==
    IF requests_count <= 1
    THEN Replace(template, PluralRequests, SingularRequests)
    ELSE template

\* the two replacements of singulars_and_plurals, given the two counts
ReplaceRequestsPhrase(template, requests_count) ==
    IF requests_count = 1
    THEN Replace(template, PluralRequests, SingularRequests)
    ELSE template

ReplaceRecommendationsPhrase(template, recommendations_count) ==
    IF recommendations_count = 1
    THEN Replace(template, PluralRecommendations, SingularRecommendations)
    ELSE template

\* singulars_and_plurals(template, content), for a content that has both keys
singulars_and_plurals(template, reqs, recs) ==
    ReplaceRecommendationsPhrase(ReplaceRequestsPhrase(template, Count(reqs)), Count(recs))

RecommendationsSpan ==
    "In addition, please consider the following recommendations to ease reproducibility:\n\n{recommendations}\n\n"

\* lines 161-165 of generate_report
RemoveEmptyRecommendations(template, recs) ==
    IF ~Truthy(recs) THEN Replace(template, RecommendationsSpan, "") ELSE template

\* the replacement fields {name} of a format string
RECURSIVE FieldsFrom(_, _)
FieldsFrom(t, i) ==
    LET a == FirstAt(t, "{", i)
        b == IF a = 0 THEN 0 ELSE FirstAt(t, "}", a + 1)
    IN  IF a = 0 \/ b = 0 THEN {}
        ELSE {SubSeq(t, a + 1, b - 1)} \cup FieldsFrom(t, b + 1)

Fields(t) == FieldsFrom(t, 1)

\* template_text.format(**kw) raises KeyError for a field kw does not have
FormatRaises(t, kw) == \E f \in Fields(t) : f \notin DOMAIN kw

\* template_text.format(**kw): each {name} replaced by str(kw[name])
RECURSIVE FormatFrom(_, _, _)
FormatFrom(t, kw, i) ==
    LET a == FirstAt(t, "{", i)
        b == IF a = 0 THEN 0 ELSE FirstAt(t, "}", a + 1)
    IN  IF a = 0 \/ b = 0 THEN SubSeq(t, i, Len(t))
        ELSE SubSeq(t, i, a - 1) \o PyToStr(kw[SubSeq(t, a + 1, b - 1)])
                 \o FormatFrom(t, kw, b + 1)

Format(t, kw) == FormatFrom(t, kw, 1)

\* str() of a rule object or dict, abbreviated to its reference
RuleRepr(rule) == "<rule " \o rule.dcas_reference.s \o ">"

RuleReprs(rules) == PyList([i \in 1..Len(rules) |-> RuleRepr(rules[i])])

ViewKeys ==
    {"version", "author", "salutation", "email", "title", "manuscript_id", "praise",
     "requests", "recommendations", "DCAS_rules", "tags"}

\* the dict to_template_format returns (lines 56-68 and 89), given the final `requests`
to_template_format_result(r, reqs) ==
    [k \in ViewKeys |->
        CASE k = "manuscript_id" -> OrEmptyStr(r.manuscript_id)
          [] k = "praise" -> OrEmptyStr(r.praise)
          [] k = "requests" -> PyList(reqs)
          [] k = "recommendations" -> OrEmptyList(r.recommendations)
          [] k = "DCAS_rules" -> RuleReprs(r.DCAS_rules)
          [] OTHER -> r[k]]

\* the keys of the loaded dict (legacy branch: the dict is used as it is)
RawContentKeys(c) == {k \in ViewKeys : k = "DCAS_rules" \/ c[k].kind # "absent"}

RawContent(c) ==
    [k \in RawContentKeys(c) |-> IF k = "DCAS_rules" THEN RuleReprs(c.DCAS_rules) ELSE c[k]]

\* {k: parse(content[k]) for k in content}
ParseAll(d) == [k \in DOMAIN d |-> parse(d[k])]

Get(d, k) == IF k \in DOMAIN d THEN d[k] ELSE PyAbsent

NoView == [k \in {} |-> PyNone]
NoReport == [version |-> PyAbsent]

YRaise(e) ==
    /\ ypc' = "error"
    /\ yerr' = e

\* line 151: content.get("version") >= 2
CheckVersion ==
    /\ ypc = "start"
    /\ IF content.version.kind # "int"
       THEN YRaise("TypeError")
       ELSE /\ ypc' = IF content.version.n >= 2 THEN "from_dict" ELSE "parse_legacy"
            /\ yerr' = yerr
    /\ UNCHANGED <<jvars, lvars, cvars, rvars, content, template_file, template_text, report, rule_i, requests, req_src, view,
                   parsed_content, output, debug_log>>

\* line 153: ReportTemplate.from_dict(content)
FromDict ==
    /\ ypc = "from_dict"
    /\ IF ReportValid(content)
       THEN /\ report' = from_dict(content)
            /\ ypc' = "to_template_format"
            /\ yerr' = yerr
       ELSE /\ YRaise("ValidationError")
            /\ report' = report
    /\ UNCHANGED <<jvars, lvars, cvars, rvars, content, template_file, template_text, rule_i, requests, req_src, view,
                   parsed_content, output, debug_log>>

\* one iteration of the loop of to_template_format (lines 70-87)
ToTemplateFormatRule ==
    /\ ypc = "to_template_format"
    /\ rule_i <= Len(report.DCAS_rules)
    /\ LET rule == report.DCAS_rules[rule_i] IN
       IF RuleSkipped(rule)
       THEN /\ rule_i' = rule_i + 1
            /\ UNCHANGED <<ypc, yerr, requests, req_src, debug_log>>
       ELSE IF DebugLineRaises(rule)
       THEN \* open(..., 'a') has created the file; nothing is written
            /\ YRaise("AttributeError")
            /\ debug_log' = [debug_log EXCEPT !.exists = TRUE]
            /\ UNCHANGED <<rule_i, requests, req_src>>
       ELSE /\ debug_log' = [exists |-> TRUE, lines |-> debug_log.lines + 1]
            /\ requests' = requests \o RuleRequests(rule)
            /\ req_src' = req_src \o [k \in 1..Len(RuleRequests(rule)) |-> rule_i]
            /\ rule_i' = rule_i + 1
            /\ UNCHANGED <<ypc, yerr>>
    /\ UNCHANGED <<jvars, lvars, cvars, rvars, content, template_file, template_text, report, view, parsed_content, output>>

\* lines 89-90, and the assignment of line 155
ToTemplateFormatReturn ==
    /\ ypc = "to_template_format"
    /\ rule_i > Len(report.DCAS_rules)
    /\ view' = to_template_format_result(report, requests)
    /\ ypc' = "parse"
    /\ UNCHANGED <<jvars, lvars, cvars, rvars, content, template_file, template_text, report, rule_i, requests, req_src,
                   parsed_content, output, yerr, debug_log>>

\* line 157
ParseContent ==
    /\ ypc = "parse"
    /\ parsed_content' = ParseAll(view)
    /\ ypc' = "plurals"
    /\ UNCHANGED <<jvars, lvars, cvars, rvars, content, template_file, template_text, report, rule_i, requests, req_src, view,
                   output, yerr, debug_log>>

\* line 159
SingularsAndPlurals ==
    /\ ypc = "plurals"
    /\ template_text' = singulars_and_plurals(template_text, view["requests"],
                                              view["recommendations"])
    /\ ypc' = "elide"
    /\ UNCHANGED <<jvars, lvars, cvars, rvars, content, template_file, report, rule_i, requests, req_src, view, parsed_content,
                   output, yerr, debug_log>>

\* lines 161-165
RemoveRecommendations ==
    /\ ypc = "elide"
    /\ template_text' = RemoveEmptyRecommendations(template_text, Get(view, "recommendations"))
    /\ ypc' = "format"
    /\ UNCHANGED <<jvars, lvars, cvars, rvars, content, template_file, report, rule_i, requests, req_src, view, parsed_content,
                   output, yerr, debug_log>>

\* line 168
ParseLegacy ==
    /\ ypc = "parse_legacy"
    /\ parsed_content' = ParseAll(RawContent(content))
    /\ ypc' = "plurals_legacy"
    /\ UNCHANGED <<jvars, lvars, cvars, rvars, content, template_file, template_text, report, rule_i, requests, req_src, view,
                   output, yerr, debug_log>>

\* line 169
SingularsAndPluralsLegacy ==
    /\ ypc = "plurals_legacy"
    /\ IF CountRaises(content.requests) \/ CountRaises(content.recommendations)
       THEN /\ YRaise("KeyError")
            /\ template_text' = template_text
       ELSE /\ template_text' = singulars_and_plurals(template_text, content.requests,
                                                      content.recommendations)
            /\ ypc' = "format"
            /\ yerr' = yerr
    /\ UNCHANGED <<jvars, lvars, cvars, rvars, content, template_file, report, rule_i, requests, req_src, view, parsed_content,
                   output, debug_log>>

\* line 171
FormatTemplate ==
    /\ ypc = "format"
    /\ IF FormatRaises(template_text, parsed_content)
       THEN /\ YRaise("KeyError")
            /\ output' = output
       ELSE /\ output' = PyStr(Format(template_text, parsed_content))
            /\ ypc' = "done"
            /\ yerr' = yerr
    /\ UNCHANGED <<jvars, lvars, cvars, rvars, content, template_file, template_text, report, rule_i, requests, req_src, view,
                   parsed_content, debug_log>>


\* -------------------------------------------- restud/render_jinja2.py
\* a TOML array of tables, each with a `text` key: l holds the texts
PyObjs(x) == [kind |-> "objs", n |-> 0, s |-> "", l |-> x]

\* Lookup that also replaces a text which only contains a key
Lookup_Substring(sn, x) ==
    IF \E k \in DOMAIN sn : FirstAt(x, k, 1) # 0
    THEN sn[CHOOSE k \in DOMAIN sn : FirstAt(x, k, 1) # 0]
    ELSE x

\* snippets.get(x, x) / "x in snippets" then snippets[x]
Lookup(sn, x) == IF x \in DOMAIN sn THEN sn[x] ELSE x

\* lines 112-120: the comments of one rule
SubstituteComments(rule, sn) ==
    IF rule.comments.kind = "list" /\ Truthy(rule.comments)
    THEN [rule EXCEPT !.comments =
             PyList([k \in 1..Len(rule.comments.l) |-> Lookup(sn, rule.comments.l[k])])]
    ELSE rule

\* lines 123-134 and 137-148: an array of strings is rebuilt, the tables of an
\* array of tables have their `text` replaced
SubstituteEntries(v, sn) ==
    IF v.kind \in {"list", "objs"} /\ v.l # <<>>
    THEN [v EXCEPT !.l = [k \in 1..Len(v.l) |-> Lookup(sn, v.l[k])]]
    ELSE v

\* substitute_tags(data, snippets)
substitute_tags(data, sn) ==
    IF ~data.has_rules THEN data
    ELSE [data EXCEPT
             !.dcas_rules = [i \in 1..Len(data.dcas_rules) |->
                                SubstituteComments(data.dcas_rules[i], sn)],
             !.recommendations = SubstituteEntries(data.recommendations, sn),
             !.requests = SubstituteEntries(data.requests, sn)]

\* ' '.join(str(x).split())
Normalize(x) == Join(Split(x), " ")

\* rule.get(key)
RuleGet(v) == IF v.kind = "absent" THEN PyNone ELSE v

\* lines 166-170: the two `continue`s
CommentSkipped(rule) ==
    \/ RuleGet(rule.answer) = PyStr("yes")
    \/ RuleGet(rule.answer) = PyStr("yes") /\ ~Truthy(RuleGet(rule.comments))

\* RuleComments without the `elif rule.get('text')` of line 182
RuleComments_NoTextFallback(rule) ==
    IF Truthy(RuleGet(rule.comments))
    THEN [k \in 1..Len(rule.comments.l) |->
             [text |-> Join(Split(rule.comments.l[k]), " "), number |-> RuleGet(rule.number)]]
    ELSE <<>>

\* lines 173-188: what one iteration appends to `comments`
RuleComments(rule) ==
    IF Truthy(RuleGet(rule.comments))
    THEN [k \in 1..Len(rule.comments.l) |->
             [text |-> Normalize(rule.comments.l[k]), number |-> RuleGet(rule.number)]]
    ELSE IF Truthy(RuleGet(rule.text))
         THEN <<[text |-> Normalize(rule.text.s), number |-> RuleGet(rule.number)]>>
         ELSE <<>>

\* history only: which comment of the rule each appended entry came from
RuleCommentSources(rule, i) ==
    IF Truthy(RuleGet(rule.comments))
    THEN [k \in 1..Len(rule.comments.l) |-> <<i, k>>]
    ELSE IF Truthy(RuleGet(rule.text)) THEN <<<<i, 0>>>> ELSE <<>>

\* report.get('dcas_rules', [])
RulesOf(data) == IF data.has_rules THEN data.dcas_rules ELSE <<>>

\* filter_empty_sections: the keys kept. metadata always; a list if non-empty;
\* anything else if truthy
KeptKeys(data, coms) ==
    {"metadata"}
    \cup (IF data.has_rules /\ data.dcas_rules # <<>> THEN {"dcas_rules"} ELSE {})
    \cup (IF data.recommendations.kind \in {"list", "objs"} /\ data.recommendations.l # <<>>
          THEN {"recommendations"} ELSE {})
    \cup (IF data.requests.kind \in {"list", "objs"} /\ data.requests.l # <<>>
          THEN {"requests"} ELSE {})
    \cup (IF coms # <<>> THEN {"comments"} ELSE {})

filter_empty_sections(data, coms) ==
    [k \in KeptKeys(data, coms) |->
        CASE k = "metadata" -> data.metadata
          [] k = "dcas_rules" -> data.dcas_rules
          [] k = "comments" -> coms
          [] OTHER -> data[k]]

\* line 214: report = self.substitute_tags(report, snippets); the dict is changed in place
SubstituteTags ==
    /\ jpc = "substitute_tags"
    /\ jreport' = substitute_tags(jreport, snippets)
    /\ jpc' = "build_comments"
    /\ UNCHANGED <<yvars, lvars, cvars, rvars, jtemplate, joutput, jerr, report_file, snippets, jrule_i, comments, com_src, context>>

\* one iteration of the loop of build_comments_from_dcas (lines 164-188)
BuildCommentsRule ==
    /\ jpc = "build_comments"
    /\ jrule_i <= Len(RulesOf(jreport))
    /\ LET rule == RulesOf(jreport)[jrule_i] IN
       IF CommentSkipped(rule)
       THEN UNCHANGED <<comments, com_src>>
       ELSE /\ comments' = comments \o RuleComments(rule)
            /\ com_src' = com_src \o RuleCommentSources(rule, jrule_i)
    /\ jrule_i' = jrule_i + 1
    /\ UNCHANGED <<yvars, lvars, cvars, rvars, jtemplate, joutput, jerr, jpc, report_file, jreport, snippets, context>>

\* line 190, and the assignment of line 217
BuildCommentsReturn ==
    /\ jpc = "build_comments"
    /\ jrule_i > Len(RulesOf(jreport))
    /\ jpc' = "filter"
    /\ UNCHANGED <<yvars, lvars, cvars, rvars, jtemplate, joutput, jerr, report_file, jreport, snippets, jrule_i, comments,
                   com_src, context>>

\* line 220
FilterEmptySections ==
    /\ jpc = "filter"
    /\ context' = filter_empty_sections(jreport, comments)
    /\ jpc' = "render"
    /\ UNCHANGED <<yvars, lvars, cvars, rvars, jtemplate, joutput, jerr, report_file, jreport, snippets, jrule_i, comments, com_src>>

\* A Jinja2 template, as far as the renderer's settings decide its output: a sequence
\* of parts, each a literal text, an expression {{ name }}, or the loop
\* {% for c in comments %}{{ c.text }} ({{ c.number }}){% endfor %}, one line per entry.
Lit(x) == [kind |-> "lit", s |-> x]
Var(x) == [kind |-> "var", s |-> x]
ForComments == [kind |-> "for", s |-> "comments"]

\* {{ name }}: the Environment of lines 20-24 is built without `undefined=`, so a name
\* the context does not have is jinja2.Undefined, which prints as the empty string
RenderVar(name, ctx) ==
    IF name \notin DOMAIN ctx THEN ""
    ELSE IF name = "metadata" THEN ctx[name]
    ELSE PyToStr(ctx[name])

\* the loop over comments; a loop over an undefined name runs no iteration
RenderComments(ctx) ==
    IF "comments" \notin DOMAIN ctx THEN ""
    ELSE Join([k \in 1..Len(ctx["comments"]) |->
                  ctx["comments"][k].text \o " (" \o PyToStr(ctx["comments"][k].number) \o ")\n"], "")

RenderPart(part, ctx) ==
    CASE part.kind = "lit" -> part.s
      [] part.kind = "var" -> RenderVar(part.s, ctx)
      [] OTHER -> RenderComments(ctx)

\* template.render(**context)
JinjaRender(parts, ctx) == Join([k \in 1..Len(parts) |-> RenderPart(parts[k], ctx)], "")

\* lines 92-93 of render_template: the snippets join the context if there are any
WithSnippets(ctx, sn) ==
    IF DOMAIN sn # {}
    THEN [k \in DOMAIN ctx \cup {"snippets"} |-> IF k = "snippets" THEN sn ELSE ctx[k]]
    ELSE ctx

\* the templates directory: a response template, one that names a variable no report
\* has, and a template name with no file
ResponseJinja == <<Lit("Dear author,\n"), ForComments, Lit("Manuscript "), Var("metadata")>>
EditorJinja == <<Lit("Dear "), Var("editor"), Lit(",\n"), ForComments>>
NoTemplate == [found |-> FALSE, parts |-> <<>>]
JinjaTemplatePool ==
    {[found |-> TRUE, parts |-> ResponseJinja], [found |-> TRUE, parts |-> EditorJinja], NoTemplate}

\* line 223, render_template: get_template (line 89) reads the template file, and raises
\* TemplateNotFound if there is none
RenderTemplate ==
    /\ jpc = "render"
    /\ \E t \in JinjaTemplatePool :
          /\ jtemplate' = t
          /\ IF t.found
             THEN /\ context' = WithSnippets(context, snippets)
                  /\ joutput' = PyStr(JinjaRender(t.parts, context'))
                  /\ jpc' = "done"
                  /\ jerr' = jerr
             ELSE /\ jpc' = "error"
                  /\ jerr' = "TemplateNotFound"
                  /\ UNCHANGED <<context, joutput>>
    /\ UNCHANGED <<yvars, lvars, cvars, rvars, report_file, jreport, snippets, jrule_i, comments, com_src>>

\* validate_toml, lines 245-251: the complaint about the first rule at or after i that
\* has one, "" if none has
RECURSIVE RuleComplaint(_, _)
RuleComplaint(rules, i) ==
    IF i > Len(rules) THEN ""
    ELSE LET rule == rules[i]
             at == "dcas_rules[" \o ToString(i - 1) \o "]"
         IN  IF rule.answer.kind = "absent" THEN at \o " missing required 'answer' field"
             ELSE IF rule.text.kind = "absent" THEN at \o " missing required 'text' field"
             ELSE IF rule.answer \notin {PyStr("yes"), PyStr("no"), PyStr("maybe")}
                  THEN at \o " invalid answer: " \o PyToStr(rule.answer)
             ELSE RuleComplaint(rules, i + 1)

\* validate_toml of a report.toml that parses
validate_toml(data) ==
    IF ~data.has_metadata
    THEN [is_valid |-> FALSE, msg |-> "Missing required 'metadata' section"]
    ELSE IF RuleComplaint(RulesOf(data), 1) # ""
         THEN [is_valid |-> FALSE, msg |-> RuleComplaint(RulesOf(data), 1)]
         ELSE [is_valid |-> TRUE, msg |-> "Valid"]

\* ------------------------------------------------------ restud/cli.py
\* ValidationStops that lets every report through
ValidationStops_Never(v) == FALSE

\* `if not is_valid:` of report (line 600) and accept (line 279)
ValidationStops(v) == ~v.is_valid

\* the template the command selects for the branch
SelectedTemplate(cmd, branch) ==
    (IF cmd = "accept" THEN "accept" ELSE "response")
        \o (IF branch = "version1" THEN "1" ELSE "2")
        \o (IF cmd = "revise" THEN ".txt" ELSE ".jinja2")

\* the git commands of report (lines 620-622)
ReportCommit(branch) ==
    <<"add report.toml response.txt", "commit -m 'update report'", "push origin " \o branch>>

\* the git commands of accept (lines 301-315); staged: `git status --porcelain` printed something
AcceptCommit(staged) ==
    IF staged
    THEN <<"add accept.txt", "commit -m 'acceptance message'", "tag accepted", "push", "push --tags">>
    ELSE <<"add accept.txt", "tag accepted", "push --tags">>

\* accept line 318: _check_community is called in the branch that commits
CommunityCheck(cmd, nc, checked) == IF cmd = "accept" /\ ~nc THEN TRUE ELSE checked

\* report lines 595-602, accept lines 274-281: validate report.toml, stop if it is not valid
CliValidate ==
    /\ cpc = "start"
    /\ command \in {"report", "accept"}
    /\ validation' = validate_toml(report_file)
    /\ IF ValidationStops(validation')
       THEN /\ stderr' = Append(stderr, "[ERROR] " \o validation'.msg)
            /\ cpc' = "returned"
       ELSE /\ stderr' = stderr
            /\ cpc' = "select"
    /\ UNCHANGED <<yvars, jvars, lvars, rvars, community_checked, command, branch_name, no_commit, template_name, out_file,
                   writes, clipboard, git_log, cerr>>

\* report lines 605-610, accept lines 284-287
CliSelectTemplate ==
    /\ cpc = "select"
    /\ template_name' = SelectedTemplate(command, branch_name)
    /\ stderr' = IF command = "report"
                 THEN Append(stderr, "[DEBUG] Selected template: " \o template_name')
                 ELSE stderr
    /\ cpc' = "generate"
    /\ UNCHANGED <<yvars, jvars, lvars, rvars, community_checked, command, branch_name, no_commit, validation, out_file,
                   writes, clipboard, git_log, cerr>>

\* report line 613, accept line 290: the call of renderer.generate_report, which loads
\* report.toml and the snippets again
CliGenerate ==
    /\ cpc = "generate"
    /\ jpc = "idle"
    /\ jpc' = "substitute_tags"
    /\ cpc' = "rendering"
    /\ UNCHANGED <<yvars, lvars, cvars_but_cpc, rvars, report_file, jreport, snippets, jrule_i, comments,
                   com_src, context, jtemplate, joutput, jerr>>

\* generate_report raised: the exception leaves the command
CliRenderRaised ==
    /\ cpc = "rendering"
    /\ jpc = "error"
    /\ cerr' = jerr
    /\ cpc' = "error"
    /\ UNCHANGED <<yvars, jvars, lvars, rvars, community_checked, command, branch_name, no_commit, validation, template_name,
                   out_file, writes, clipboard, git_log, stderr>>

\* report lines 615-616; accept lines 293-297, which also hands the text to pbcopy
CliWrite ==
    /\ cpc = "rendering"
    /\ jpc = "done"
    /\ out_file' = joutput
    /\ writes' = writes + 1
    /\ clipboard' = IF command = "accept" THEN joutput ELSE clipboard
    /\ cpc' = "commit"
    /\ UNCHANGED <<yvars, jvars, lvars, rvars, community_checked, command, branch_name, no_commit, validation, template_name,
                   git_log, stderr, cerr>>

\* report lines 619-625, accept lines 300-321
CliCommit ==
    /\ cpc = "commit"
    /\ IF no_commit
       THEN git_log' = git_log
       ELSE IF command = "report"
            THEN git_log' = git_log \o ReportCommit(branch_name)
            ELSE \E staged \in BOOLEAN : git_log' = git_log \o AcceptCommit(staged)
    /\ community_checked' = CommunityCheck(command, no_commit, community_checked)
    /\ cpc' = "returned"
    /\ UNCHANGED <<yvars, jvars, lvars, rvars, command, branch_name, no_commit, validation, template_name,
                   out_file, writes, clipboard, stderr, cerr>>

\* revise lines 226-237: cli.py neither defines nor imports a generate_report, so the
\* call of line 237 raises NameError; lines 240-253 are never reached
ReviseGenerate ==
    /\ cpc = "start"
    /\ command = "revise"
    /\ template_name' = SelectedTemplate(command, branch_name)
    /\ cerr' = "NameError"
    /\ cpc' = "error"
    /\ UNCHANGED <<yvars, jvars, lvars, rvars, community_checked, command, branch_name, no_commit, validation, out_file,
                   writes, clipboard, git_log, stderr>>

\* --------------------------------------- .config/restud/DCAS_scheme.py
LegacyResponseType == {"yes", "no", "maybe", "not_applicable"}

\* model_validate of one DCASRuleItem: answer is Optional[ResponseType]
LegacyRuleValid(rule) ==
    \/ rule.answer.kind \in {"absent", "none"}
    \/ rule.answer.kind = "str" /\ rule.answer.s \in LegacyResponseType

\* DCASTemplate.from_yaml: does model_validate accept the document
LegacyValid(d) ==
    /\ d.requests.kind \in {"absent", "none", "str", "list"}
    /\ d.recommendations.kind \in {"absent", "none", "str", "list"}
    /\ \A i \in 1..Len(d.DCAS_rules) : LegacyRuleValid(d.DCAS_rules[i])

\* sorted(rules, key=lambda x: x.order): stable
RECURSIVE SortedByOrder(_)
SortedByOrder(rules) ==
    IF rules = <<>> THEN <<>>
    ELSE LET least == CHOOSE i \in 1..Len(rules) :
                         \A j \in 1..Len(rules) :
                             \/ rules[i].order < rules[j].order
                             \/ rules[i].order = rules[j].order /\ i <= j
             rest == [k \in 1..(Len(rules) - 1) |-> IF k < least THEN rules[k] ELSE rules[k + 1]]
         IN  <<rules[least]>> \o SortedByOrder(rest)

\* lines 70-74
LegacyItem(rule) ==
    LET answer_text == IF rule.answer.kind = "str" THEN rule.answer.s ELSE "not_evaluated"
        formatted_item == rule.section \o " - " \o rule.item \o ": " \o answer_text
    IN  IF Truthy(rule.exemption_reason)
        THEN formatted_item \o " (Exempt: " \o rule.exemption_reason.s \o ")"
        ELSE formatted_item

LegacyKeys(d) ==
    {"author", "salutation", "email", "title", "praise", "requests", "recommendations",
     "dcas_items"} \cup (IF Truthy(d.tags) THEN {"tags"} ELSE {})

\* DCASTemplate.to_template_format (constants_path is None: nothing is merged)
legacy_to_template_format(d) ==
    [k \in LegacyKeys(d) |->
        CASE k = "requests" -> OrEmptyList(ensure_list(d.requests))
          [] k = "recommendations" -> OrEmptyList(ensure_list(d.recommendations))
          [] k = "dcas_items" ->
                 LET sorted == SortedByOrder(d.DCAS_rules)
                 IN  PyList([i \in 1..Len(sorted) |-> LegacyItem(sorted[i])])
          [] k = "tags" -> d.tags
          [] OTHER -> OrEmptyStr(d[k])]

\* ordered_list (DCAS_scheme.py, DCAS_render.py): no case for a single item
legacy_ordered_list(list_items) ==
    IF list_items = <<>> THEN ""
    ELSE Join([i \in 1..Len(list_items) |-> ToString(i) \o ". " \o list_items[i]], "\n")

\* parse (DCAS_scheme.py)
legacy_parse(value) ==
    IF value.kind = "list" THEN PyStr(legacy_ordered_list(value.l)) ELSE value

\* lines 157 and 166
LegacyLoad ==
    /\ lpc = "from_yaml"
    /\ IF LegacyValid(ldoc)
       THEN /\ lcontent' = legacy_to_template_format(ldoc)
            /\ lpc' = "parse"
            /\ lerr' = lerr
       ELSE /\ lpc' = "error"
            /\ lerr' = "ValidationError"
            /\ lcontent' = lcontent
    /\ UNCHANGED <<yvars, jvars, cvars, rvars, ldoc, ltemplate, lparsed, loutput>>

\* line 174
LegacyParse ==
    /\ lpc = "parse"
    /\ lparsed' = [k \in DOMAIN lcontent |-> legacy_parse(lcontent[k])]
    /\ lpc' = "plurals"
    /\ UNCHANGED <<yvars, jvars, cvars, rvars, ldoc, ltemplate, lcontent, loutput, lerr>>

\* line 177: the same singulars_and_plurals; to_template_format always sets both keys
LegacySingularsAndPlurals ==
    /\ lpc = "plurals"
    /\ ltemplate' = singulars_and_plurals(ltemplate, lcontent["requests"],
                                          lcontent["recommendations"])
    /\ lpc' = "format"
    /\ UNCHANGED <<yvars, jvars, cvars, rvars, ldoc, lcontent, lparsed, loutput, lerr>>

\* line 180
LegacyFormat ==
    /\ lpc = "format"
    /\ IF FormatRaises(ltemplate, lparsed)
       THEN /\ lpc' = "error"
            /\ lerr' = "KeyError"
            /\ loutput' = loutput
       ELSE /\ loutput' = PyStr(Format(ltemplate, lparsed))
            /\ lpc' = "done"
            /\ lerr' = lerr
    /\ UNCHANGED <<yvars, jvars, cvars, rvars, ldoc, ltemplate, lcontent, lparsed>>

\* ------------------------- restud/cli.py, what looks at the working directory
\* str.lower(), letter by letter
Uppercase == "ABCDEFGHIJKLMNOPQRSTUVWXYZ"
Lowercase == "abcdefghijklmnopqrstuvwxyz"
LowerChar(c) ==
    IF FirstAt(Uppercase, c, 1) = 0 THEN c ELSE Char(Lowercase, FirstAt(Uppercase, c, 1))
Lower(x) == Join([i \in 1..Len(x) |-> LowerChar(Char(x, i))], "")

\* report.yaml: is it there, can it be read and parsed, and what yaml.load gives for it
\* after the tags file: None, or a dict with the keys version and DCAS_rules
ReportYaml(exists, loads, cont) == [exists |-> exists, loads |-> loads, content |-> cont]
NoReportYaml == ReportYaml(FALSE, FALSE, PyNone)
YamlDict(v, rules) == [kind |-> "dict", version |-> v, DCAS_rules |-> rules]

\* line 91: content.get('version', 1) < 2; an int can be compared, anything else
\* raises TypeError
VersionOf(cont) == IF cont.version.kind = "absent" THEN PyInt(1) ELSE cont.version

\* content.get('DCAS_rules', [])
DcasRulesOf(cont) == IF cont.DCAS_rules.kind = "absent" THEN PyList(<<>>) ELSE cont.DCAS_rules

\* rule.get('answer', '')
AnswerOf(rule) == IF rule.answer.kind = "absent" THEN PyStr("") ELSE rule.answer

\* lines 100-107, from rule i on; .lower() of an answer that is no str raises
\* AttributeError, which line 109 turns into "report"
RECURSIVE ScanAnswers(_, _)
ScanAnswers(rules, i) ==
    IF i > Len(rules) THEN "good"
    ELSE IF AnswerOf(rules[i]).kind # "str" THEN "report"
    ELSE IF Lower(AnswerOf(rules[i]).s) = "no" THEN "issues"
    ELSE ScanAnswers(rules, i + 1)

get_report_status(f) ==
    IF ~f.exists THEN PyNone
    ELSE IF ~f.loads THEN PyStr("report")
    ELSE IF f.content = PyNone THEN PyStr("report")
    ELSE IF VersionOf(f.content).kind # "int" THEN PyStr("report")
    ELSE IF VersionOf(f.content).n < 2 THEN PyStr("report")
    ELSE IF ~Truthy(DcasRulesOf(f.content)) THEN PyStr("report")
    ELSE PyStr(ScanAnswers(DcasRulesOf(f.content).l, 1))

\* the prompt asks for the status of the report
GetReportStatus ==
    /\ op = "get_report_status"
    /\ opc = "start"
    /\ status' = get_report_status(report_yaml)
    /\ opc' = "returned"
    /\ UNCHANGED <<yvars, jvars, lvars, cvars, gitvars, ccvars, foldervars, cookievars, op,
                   report_yaml>>

\* str.strip(), of the blanks git pads its lines with
RECURSIVE LStrip(_)
LStrip(x) == IF x # "" /\ IsSpace(Char(x, 1)) THEN LStrip(SubSeq(x, 2, Len(x))) ELSE x
RECURSIVE RStrip(_)
RStrip(x) == IF x # "" /\ IsSpace(Char(x, Len(x))) THEN RStrip(SubSeq(x, 1, Len(x) - 1)) ELSE x
Strip(x) == LStrip(RStrip(x))

\* x.split(sep)[-1]: what follows the last sep in x, x itself if there is none
RECURSIVE LastPiece(_, _)
LastPiece(x, sep) ==
    IF FirstAt(x, sep, 1) = 0 THEN x
    ELSE LastPiece(SubSeq(x, FirstAt(x, sep, 1) + Len(sep), Len(x)), sep)

\* int(x) of a text without blanks, sign or underscore: ValueError unless x is a
\* non-empty run of digits
Digits == "0123456789"
IsNumber(x) == x # "" /\ \A i \in 1..Len(x) : FirstAt(Digits, Char(x, i), 1) # 0
RECURSIVE ToInt(_)
ToInt(x) ==
    IF x = "" THEN 0
    ELSE 10 * ToInt(SubSeq(x, 1, Len(x) - 1)) + (FirstAt(Digits, Char(x, Len(x)), 1) - 1)

\* the order of two texts of digits, as max() of a list of str would take it
RECURSIVE TextLess(_, _)
TextLess(x, y) ==
    IF y = "" THEN FALSE
    ELSE IF x = "" THEN TRUE
    ELSE IF Char(x, 1) # Char(y, 1)
         THEN FirstAt(Digits, Char(x, 1), 1) < FirstAt(Digits, Char(y, 1), 1)
         ELSE TextLess(SubSeq(x, 2, Len(x)), SubSeq(y, 2, Len(y)))

\* max()
Max(S) == CHOOSE x \in S : \A y \in S : y <= x

\* `git branch -r`: one line for each branch of origin
BranchR(remote) == {"  origin/" \o b : b \in remote}

\* pull line 206
VersionLines(lines) == {Strip(line) : line \in {l \in lines : Contains(l, "version")}}

\* max() of the suffixes taken as texts
LatestVersion_AsText(versions) ==
    ToInt(CHOOSE x \in {LastPiece(v, "version") : v \in versions} :
             \A y \in {LastPiece(v, "version") : v \in versions} : ~TextLess(x, y))

\* pull line 208, for suffixes int() accepts
LatestVersion(versions) == Max({ToInt(LastPiece(v, "version")) : v \in versions})

\* f'version{n}'
VersionName(n) == "version" \o ToString(n)

\* pull: clone or pull (lines 197-202), then switch to the latest version branch of
\* origin (lines 205-209). A clone checks out origin's default branch, author.
Pull ==
    /\ op = "pull"
    /\ opc = "start"
    /\ LET fetched == IF package_found THEN local_branches
                      ELSE IF remote_branches = {} THEN {} ELSE {"author"}
           at == IF package_found THEN current_branch
                 ELSE IF remote_branches = {} THEN "" ELSE "author"
           cmds == <<IF package_found THEN "pull" ELSE "clone">>
           versions == VersionLines(BranchR(remote_branches))
       IN  IF versions = {}
           THEN /\ current_branch' = at
                /\ local_branches' = fetched
                /\ git_cmds' = git_cmds \o cmds
                /\ operr' = operr
                /\ opc' = "returned"
           ELSE IF \E v \in versions : ~IsNumber(LastPiece(v, "version"))
           THEN /\ current_branch' = at
                /\ local_branches' = fetched
                /\ git_cmds' = git_cmds \o cmds
                /\ operr' = "ValueError"
                /\ opc' = "error"
           ELSE /\ current_branch' = VersionName(LatestVersion(versions))
                /\ local_branches' = fetched \cup {VersionName(LatestVersion(versions))}
                /\ git_cmds' = git_cmds \o cmds
                                  \o <<"switch " \o VersionName(LatestVersion(versions))>>
                /\ operr' = operr
                /\ opc' = "returned"
    /\ UNCHANGED <<yvars, jvars, lvars, cvars, statusvars, foldervars, cookievars, ccvars, op, package_found, branch_before,
                   remote_branches, dlvars>>

\* ---------------------------------- restud/cli.py, download and download_withurl
\* the path a download takes: download_withurl, or download with its single-file branch
\* (lines 500-567) or _download_multiple_files (line 570)
Path ==
    IF op = "download_withurl" THEN "download_withurl"
    ELSE IF n_files = 1 THEN "download" ELSE "_download_multiple_files"

\* stdout.split('\n') of `git status --porcelain`: the lines, and the empty text after
\* the last newline
StatusSplit(lines) == lines \cup {""}

\* the filter of line 387 that also keeps the lines of untracked files
TrackedChanges_WithUntracked(lines) == {line \in lines : line # ""}

\* lines 387, 509, 857: committed_changes
TrackedChanges(lines) == {line \in lines : line # "" /\ ~StartsWithAt(line, "??", 1)}

\* `git branch -a`: the local branches, the current one starred, then origin's
BranchA(local, remote, cur) ==
    {(IF b = cur THEN "* " ELSE "  ") \o b : b \in local}
    \cup {"  remotes/origin/" \o b : b \in remote}
    \cup (IF "author" \in remote THEN {"  remotes/origin/HEAD -> origin/author"} ELSE {})

\* lines 428, 529, 909: the local branches other than author
OtherLocalBranches(lines) ==
    {Strip(line) : line \in {l \in lines : /\ Strip(l) # ""
                                           /\ ~Contains(l, "author")
                                           /\ ~StartsWithAt(Strip(l), "remotes/", 1)}}

\* line 416: the version branches, local or of origin
VersionBranches(lines) ==
    {Strip(line) : line \in {l \in lines : /\ Strip(l) # ""
                                           /\ ~Contains(l, "author")
                                           /\ Contains(l, "version")}}

\* _get_latest_version, of the lines `git branch -a` printed
get_latest_version(lines) ==
    LET nums == {ToInt(Strip(LastPiece(line, "version"))) :
                    line \in {l \in lines : /\ Contains(l, "version")
                                            /\ IsNumber(Strip(LastPiece(l, "version")))}}
    IN  IF nums = {} THEN 0 ELSE Max(nums)

\* the first download pushes the branch it creates: lines 537 and 917 do, and
\* download_withurl has no such line after line 434
FirstPush(path) == IF path = "download_withurl" THEN <<>> ELSE <<"push -u origin version1">>

\* lines 539-543: the single-file download puts a report.toml on version1
FirstReport(path) ==
    IF path = "download"
    THEN <<"add report.toml", "commit -m 'initial report template'", "push">>
    ELSE <<>>

\* _copy_report_from_previous_version: commits report.toml if the branch has one
CopyReport(latest, found) ==
    IF found
    THEN <<"add report.toml", "commit -m 'copy report.toml from " \o VersionName(latest) \o "'">>
    ELSE <<>>

\* download lines 468-500: ask the draft record for its files; no file, exit
DownloadListFiles ==
    /\ op = "download"
    /\ opc = "start"
    /\ effects' = Append(effects, "GET draft")
    /\ IF n_files = 0
       THEN operr' = "SystemExit" /\ opc' = "error"
       ELSE operr' = operr /\ opc' = "check_branch"
    /\ UNCHANGED <<yvars, jvars, lvars, cvars, statusvars, foldervars, cookievars, ccvars, op, package_found, current_branch,
                   branch_before, local_branches, remote_branches, git_cmds, repo_before,
                   status_lines, n_files, has_changes, created, zenodo_saved>>

\* lines 381-391, 505-513, 853-861
DownloadCheckBranch ==
    /\ op \in {"download_withurl", "download"}
    /\ opc = "check_branch"
    /\ IF current_branch = "author"
       THEN /\ opc' = "fetch"
            /\ UNCHANGED <<current_branch, git_cmds, operr>>
       ELSE IF TrackedChanges(StatusSplit(status_lines)) # {}
       THEN /\ operr' = "SystemExit"
            /\ opc' = "error"
            /\ UNCHANGED <<current_branch, git_cmds>>
       ELSE /\ git_cmds' = Append(git_cmds, "switch author")
            /\ current_branch' = "author"
            /\ opc' = "fetch"
            /\ operr' = operr
    /\ UNCHANGED <<yvars, jvars, lvars, cvars, statusvars, foldervars, cookievars, ccvars, op, package_found, branch_before,
                   local_branches, remote_branches, dlvars>>

\* lines 393-410, 515-526, 863-906: _empty_folder, the download of each file,
\* _commit_changes with its `git add .`, and the second `git status --porcelain`
DownloadFiles ==
    /\ op \in {"download_withurl", "download"}
    /\ opc = "fetch"
    /\ effects' = effects \o <<"_empty_folder">> \o [k \in 1..n_files |-> "GET content"]
                          \o <<"_commit_changes">>
    /\ git_cmds' = Append(git_cmds, "add .")
    /\ has_changes' \in BOOLEAN
    /\ opc' = "branch"
    /\ UNCHANGED <<yvars, jvars, lvars, cvars, statusvars, foldervars, cookievars, ccvars, op, package_found, current_branch,
                   branch_before, local_branches, remote_branches, operr, repo_before,
                   status_lines, n_files, created, zenodo_saved>>

\* nothing changed: lines 412-423; lines 547-552 and 921-926, which are only reached
\* when there is a local branch other than author
DownloadUnchanged ==
    /\ op \in {"download_withurl", "download"}
    /\ opc = "branch"
    /\ ~has_changes
    /\ LET lines == BranchA(local_branches, remote_branches, current_branch)
           latest == get_latest_version(lines)
       IN  /\ Path = "download_withurl" \/ OtherLocalBranches(lines) # {}
           /\ IF (Path = "download_withurl" => VersionBranches(lines) # {}) /\ latest > 0
              THEN /\ git_cmds' = Append(git_cmds, "checkout " \o VersionName(latest))
                   /\ current_branch' = VersionName(latest)
                   /\ local_branches' = local_branches \cup {VersionName(latest)}
              ELSE UNCHANGED <<git_cmds, current_branch, local_branches>>
    /\ zenodo_saved' = TRUE
    /\ opc' = "returned"
    /\ UNCHANGED <<yvars, jvars, lvars, cvars, statusvars, foldervars, cookievars, ccvars, op, package_found, branch_before,
                   remote_branches, operr, repo_before, status_lines, n_files, has_changes,
                   effects, created>>

\* no local branch but author: lines 430-434; lines 531-544 and 911-918, which do not
\* look at has_changes, so that their `git commit` may find nothing to commit and fail
DownloadFirst ==
    /\ op \in {"download_withurl", "download"}
    /\ opc = "branch"
    /\ Path = "download_withurl" => has_changes
    /\ OtherLocalBranches(BranchA(local_branches, remote_branches, current_branch)) = {}
    /\ IF ~has_changes
       THEN /\ git_cmds' = Append(git_cmds, "commit -m 'initial commit from zenodo'")
            /\ operr' = "CalledProcessError"
            /\ opc' = "error"
            /\ UNCHANGED <<current_branch, local_branches, remote_branches, created, zenodo_saved>>
       ELSE /\ git_cmds' = git_cmds \o <<"commit -m 'initial commit from zenodo'",
                                         "push origin author --set-upstream",
                                         "checkout -b version1">>
                                    \o FirstPush(Path) \o FirstReport(Path)
            /\ current_branch' = "version1"
            /\ local_branches' = local_branches \cup {"version1"}
            /\ remote_branches' = remote_branches \cup {"author"}
                                     \cup (IF FirstPush(Path) # <<>> THEN {"version1"} ELSE {})
            /\ created' = "version1"
            /\ zenodo_saved' = TRUE
            /\ operr' = operr
            /\ opc' = "returned"
    /\ UNCHANGED <<yvars, jvars, lvars, cvars, statusvars, foldervars, cookievars, ccvars, op, package_found, branch_before,
                   repo_before, status_lines, n_files, has_changes, effects>>

\* changes, and a local branch other than author: lines 435-453, 553-567, 927-941
DownloadNewVersion ==
    /\ op \in {"download_withurl", "download"}
    /\ opc = "branch"
    /\ has_changes
    /\ LET lines == BranchA(local_branches, remote_branches, current_branch)
           latest == get_latest_version(lines)
       IN  /\ OtherLocalBranches(lines) # {}
           /\ \E found \in BOOLEAN :
                 git_cmds' = git_cmds \o <<"commit -m 'update from zenodo'", "push",
                                           "checkout -b " \o VersionName(latest + 1)>>
                                      \o CopyReport(latest, found)
                                      \o <<"push -u origin " \o VersionName(latest + 1)>>
           /\ current_branch' = VersionName(latest + 1)
           /\ local_branches' = local_branches \cup {VersionName(latest + 1)}
           /\ remote_branches' = remote_branches \cup {VersionName(latest + 1)}
           /\ created' = VersionName(latest + 1)
    /\ zenodo_saved' = TRUE
    /\ opc' = "returned"
    /\ UNCHANGED <<yvars, jvars, lvars, cvars, statusvars, foldervars, cookievars, ccvars, op, package_found, branch_before,
                   operr, repo_before, status_lines, n_files, has_changes, effects>>

\* the working trees a download is started in: with nothing changed, with an untracked
\* file, with a tracked file modified, with both
StatusPool ==
    {{}, {"?? notes.txt"}, {" M report.toml"}, {" M report.toml", "?? notes.txt"}}

\* the files a draft record lists: none, one, two
FilePool == 0..2

\* the command line of one download: which command, and what it finds
DownloadCalls ==
    {<<"download_withurl", 1, st>> : st \in StatusPool}
    \cup {<<"download", n, st>> : n \in FilePool, st \in StatusPool}

\* after a download has returned, the next one is started in the repository as it is
DownloadAgain ==
    /\ op \in {"download_withurl", "download"}
    /\ opc = "returned"
    /\ get_latest_version(BranchA(local_branches, remote_branches, current_branch)) < MaxVersion
    /\ \E call \in DownloadCalls :
          /\ op' = call[1]
          /\ n_files' = call[2]
          /\ status_lines' = call[3]
          /\ opc' = IF call[1] = "download" THEN "start" ELSE "check_branch"
    /\ branch_before' = current_branch
    /\ repo_before' = [local |-> local_branches, remote |-> remote_branches]
    /\ git_cmds' = <<>>
    /\ effects' = <<>>
    /\ has_changes' = FALSE
    /\ created' = ""
    /\ zenodo_saved' = FALSE
    /\ UNCHANGED <<yvars, jvars, lvars, cvars, statusvars, foldervars, cookievars, ccvars, package_found, current_branch,
                   local_branches, remote_branches, operr>>

\* ------------------------------------------- restud/cli.py, _commit_changes
\* line 1023
size_limit == 20 * 1024 * 1024

\* the test of line 1040 with >= for >
IsLarge_OrEqual(sz) == sz >= size_limit

\* line 1040
IsLarge(sz) == sz > size_limit

\* os.walk('.'): the paths, in the order the walk visits them
Walk(t) ==
    LET order == <<".git/pack", "big.dta", "code/run.do">>
    IN  SelectSeq(order, LAMBDA p : p \in DOMAIN t)

\* lines 1035-1055: large_files, each path without its './'
large_files(t) == SelectSeq(Walk(t), LAMBDA p : IsLarge(t[p].size))

\* lines 1058-1065
gitignore_entries(t) == large_files(t) \o <<".zenodo", "_MACOSX", ".DS_Store">>

\* a line of .gitignore, taken as a pattern without wildcard, matches the path: with a
\* slash it is the path from the top, without one it is the name of the file or of a
\* directory above it
Ignores(line, path) ==
    \/ line = path
    \/ /\ ~Contains(line, "/")
       /\ \/ StartsWithAt(path, line \o "/", 1)
          \/ Contains(path, "/" \o line \o "/")
          \/ /\ Len(path) > Len(line)
             /\ StartsWithAt(path, "/" \o line, Len(path) - Len(line))

\* `git add .`: what is inside .git is never added; a tracked file is added whatever
\* .gitignore says; a new file is added unless a line of .gitignore matches it
Added(t, lines) ==
    {p \in DOMAIN t :
        /\ ~StartsWithAt(p, ".git/", 1)
        /\ t[p].tracked \/ ~\E k \in 1..Len(lines) : Ignores(lines[k], p)}

\* lines 1023-1100: find the large files, rewrite .gitignore, write LARGE_FILES.txt
CommitChangesIgnore ==
    /\ op = "_commit_changes"
    /\ opc = "start"
    /\ gitignore' = PyStr(Join(gitignore_entries(tree), "\n"))
    /\ large_report' = (large_report \/ large_files(tree) # <<>>)
    /\ opc' = "add"
    /\ UNCHANGED <<yvars, jvars, lvars, cvars, statusvars, foldervars, cookievars, gitvars, op, tree, added>>

\* line 1102
CommitChangesAdd ==
    /\ op = "_commit_changes"
    /\ opc = "add"
    /\ added' = Added(tree, gitignore_entries(tree)) \cup {".gitignore"}
                    \cup (IF large_report THEN {"LARGE_FILES.txt"} ELSE {})
    /\ opc' = "returned"
    /\ UNCHANGED <<yvars, jvars, lvars, cvars, statusvars, foldervars, cookievars, gitvars, op, tree, gitignore,
                   large_report>>

\* --------------------------------------------- restud/cli.py, _empty_folder
\* line 1014 without its test
Removed_EveryDir(name, kind) == kind = "dir"

\* lines 1010-1015: the entries shutil.rmtree is called on
Removed(name, kind) == kind = "dir" /\ name \notin {".git"}

\* _empty_folder
EmptyFolder ==
    /\ op = "_empty_folder"
    /\ opc = "start"
    /\ folder' = [name \in {n \in DOMAIN folder : ~Removed(n, folder[n])} |-> folder[name]]
    /\ opc' = "returned"
    /\ UNCHANGED <<yvars, jvars, lvars, cvars, statusvars, gitvars, ccvars, cookievars, op,
                   folder_before>>

\* ----------------------------------------------- restud/cli.py, _get_cookie
\* datetime.strptime(x, '%Y-%m-%d'), as the number yyyymmdd, which orders days as
\* datetime does
ParseDate(x) ==
    ToInt(SubSeq(x, 1, 4)) * 10000 + ToInt(SubSeq(x, 6, 7)) * 100 + ToInt(SubSeq(x, 9, 10))

\* line 957: datetime.now() > exp_date, exp_date being midnight of its day
Expired(cookie, t) ==
    \/ ParseDate(t.day) > ParseDate(cookie.exp_date)
    \/ ParseDate(t.day) = ParseDate(cookie.exp_date) /\ ~t.midnight

\* what the user answers to _create_cookie: no (the default), or yes with a value and
\* an expiration date
Declines == [confirm |-> "n", value |-> "", exp_date |-> ""]
Enters(value, exp) == [confirm |-> "y", value |-> value, exp_date |-> exp]

\* _create_cookie: the cookie file after it
create_cookie(file, answer) ==
    IF Lower(answer.confirm) # "y" THEN file
    ELSE [kind |-> "cookie", value |-> answer.value, exp_date |-> answer.exp_date]

CookieAnswers ==
    {Declines, Enters("fresh", "2026-12-31"), Enters("stale", "2026-10-01")}

\* lines 946-949: no cookie file, so _create_cookie is called
GetCookieEnsureFile ==
    /\ op = "_get_cookie"
    /\ opc = "start"
    /\ IF cookie_file = PyAbsent
       THEN \E answer \in CookieAnswers :
               /\ cookie_file' = create_cookie(cookie_file, answer)
               /\ cookies_stored' = cookies_stored + (IF answer.confirm = "y" THEN 1 ELSE 0)
       ELSE UNCHANGED <<cookie_file, cookies_stored>>
    /\ opc' = "read"
    /\ UNCHANGED <<yvars, jvars, lvars, cvars, statusvars, gitvars, ccvars, foldervars, op,
                   cookie_before, now, cookie_value>>

\* lines 951-962: read the file, which raises if there is none; if the cookie has
\* expired call _create_cookie and read the file again; return the value read
GetCookieRead ==
    /\ op = "_get_cookie"
    /\ opc = "read"
    /\ IF cookie_file = PyAbsent
       THEN /\ operr' = "FileNotFoundError"
            /\ opc' = "error"
            /\ UNCHANGED <<cookie_file, cookies_stored, cookie_value>>
       ELSE /\ IF Expired(cookie_file, now)
               THEN \E answer \in CookieAnswers :
                       /\ cookie_file' = create_cookie(cookie_file, answer)
                       /\ cookies_stored' = cookies_stored + (IF answer.confirm = "y" THEN 1 ELSE 0)
               ELSE UNCHANGED <<cookie_file, cookies_stored>>
            /\ cookie_value' = PyStr(cookie_file'.value)
            /\ opc' = "returned"
            /\ operr' = operr
    /\ UNCHANGED <<yvars, jvars, lvars, cvars, statusvars, ccvars, foldervars, op,
                   cookie_before, now, package_found, current_branch, branch_before,
                   local_branches, remote_branches, git_cmds, dlvars>>

\* ------------------------------------------- the reports and templates tried
Rule(name, answer, comment) ==
    [name |-> name, description |-> PyStr("Data is cited"), answer |-> answer,
     comment |-> comment, dcas_reference |-> PyAbsent, model |-> ""]

\* the rule at position i of the report carries the reference data-i
Numbered(shapes) ==
    [i \in 1..Len(shapes) |->
        [shapes[i] EXCEPT !.dcas_reference = PyStr("data-" \o ToString(i))]]

CommentPool ==
    {PyNone, PyStr(""), PyStr("missing dataset"), PyList(<<>>),
     PyList(<<"missing dataset">>), PyList(<<"no README", "missing dataset">>)}

\* every answer and every shape of comment, in a rule that has a name
NamedRules == {Rule(PyStr("data-citation"), a, c) : a \in ResponseType, c \in CommentPool}

\* a few rules, with and without a name
FewRules ==
    {Rule(PyStr("data-citation"), "yes", PyNone),
     Rule(PyStr("data-citation"), "no", PyList(<<"missing dataset">>)),
     Rule(PyStr("data-citation"), "maybe", PyList(<<"no README", "missing dataset">>)),
     Rule(PyAbsent, "no", PyStr("missing dataset")),
     Rule(PyAbsent, "na", PyNone),
     Rule(PyStr("data-citation"), "unknown", PyNone)}

RecommendationPool ==
    {PyAbsent, PyList(<<>>), PyList(<<"add a README">>),
     PyList(<<"add a README", "use relative paths">>), PyStr("add a README")}

ResponseTemplate ==
    "Dear {salutation},\n\nplease make the following changes:\n\n{requests}\n\nIn addition, please consider the following recommendations to ease reproducibility:\n\n{recommendations}\n\nBest,\n{author}"

\* a template with no recommendations section
RequestsOnlyTemplate ==
    "Dear {salutation},\n\nplease make the following changes:\n\n{requests}\n\nBest,\n{author}"

\* a template that names a field no report has
EditorTemplate ==
    "Dear {salutation},\n\nplease make the following changes:\n\n{requests}\n\nIn addition, please consider the following recommendations to ease reproducibility:\n\n{recommendations}\n\nBest,\n{editor}"

TemplatePool == {ResponseTemplate, RequestsOnlyTemplate, EditorTemplate}

Content(version, rules, recs, reqs) ==
    [version |-> version, author |-> PyStr("M. Reviewer"), salutation |-> PyStr("Prof. Author"),
     email |-> PyStr("dataeditor@restud.com"), title |-> PyStr("Data Editor"),
     manuscript_id |-> PyAbsent, praise |-> PyNone, DCAS_rules |-> Numbered(rules),
     recommendations |-> recs, requests |-> reqs, tags |-> PyList(<<"DCAS">>)]

\* rules with a name, one of them the empty name
StrictRules ==
    {Rule(PyStr(""), "no", PyStr("missing dataset")),
     Rule(PyStr("data-citation"), "maybe", PyStr("no README"))}

\* the same report, every rule carrying the reference data-1
SameReference(c) ==
    [c EXCEPT !.DCAS_rules =
        [i \in 1..Len(c.DCAS_rules) |-> [c.DCAS_rules[i] EXCEPT !.dcas_reference = PyStr("data-1")]]]

YamlInputs ==
    {<<SameReference(Content(PyInt(3), rules, PyAbsent, PyAbsent)), ResponseTemplate>> :
        rules \in UNION {[1..n -> StrictRules] : n \in 1..MaxRules}}
    \cup
    {<<Content(PyInt(2), rules, PyAbsent, PyAbsent), ResponseTemplate>> :
        rules \in UNION {[1..n -> NamedRules] : n \in 0..MaxRules}}
    \cup
    {<<Content(PyInt(2), rules, recs, PyAbsent), t>> :
        rules \in UNION {[1..n -> FewRules] : n \in 0..MaxRules},
        recs \in RecommendationPool,
        t \in TemplatePool}
    \cup
    {<<Content(v, rules, recs, reqs), ResponseTemplate>> :
        v \in {PyAbsent, PyInt(1), PyInt(3)},
        rules \in UNION {[1..n -> FewRules] : n \in 0..MaxRules},
        recs \in {PyAbsent, PyList(<<>>), PyList(<<"add a README">>)},
        reqs \in {PyAbsent, PyList(<<"share the data">>)}}

YamlIdle ==
    /\ ypc = "idle"
    /\ content = Content(PyAbsent, <<>>, PyAbsent, PyAbsent)
    /\ template_file = ""
    /\ template_text = ""
    /\ report = NoReport
    /\ rule_i = 1
    /\ requests = <<>>
    /\ req_src = <<>>
    /\ view = NoView
    /\ parsed_content = NoView
    /\ output = PyNone
    /\ yerr = ""
    /\ debug_log = [exists |-> FALSE, lines |-> 0]

JinjaIdle ==
    /\ jpc = "idle"
    /\ report_file = <<>>
    /\ jreport = <<>>
    /\ snippets = <<>>
    /\ jrule_i = 1
    /\ comments = <<>>
    /\ com_src = <<>>
    /\ context = <<>>
    /\ jtemplate = NoTemplate
    /\ joutput = PyNone
    /\ jerr = ""

LegacyIdle ==
    /\ lpc = "idle"
    /\ ldoc = <<>>
    /\ ltemplate = ""
    /\ lcontent = NoView
    /\ lparsed = NoView
    /\ loutput = PyNone
    /\ lerr = ""

\* no command of the CLI is running: a renderer is called directly
CliIdle ==
    /\ command = "none"
    /\ cpc = "idle"
    /\ branch_name = ""
    /\ no_commit = FALSE
    /\ validation = [is_valid |-> FALSE, msg |-> ""]
    /\ template_name = ""
    /\ out_file = PyAbsent
    /\ writes = 0
    /\ clipboard = PyNone
    /\ git_log = <<>>
    /\ stderr = <<>>
    /\ cerr = ""
    /\ community_checked = FALSE

\* no download is run
DownloadIdle ==
    /\ repo_before = [local |-> {}, remote |-> {}]
    /\ status_lines = {}
    /\ n_files = 0
    /\ has_changes = FALSE
    /\ effects = <<>>
    /\ created = ""
    /\ zenodo_saved = FALSE

\* no function that runs git is called
GitIdle ==
    /\ package_found = FALSE
    /\ current_branch = ""
    /\ branch_before = ""
    /\ local_branches = {}
    /\ remote_branches = {}
    /\ git_cmds = <<>>
    /\ operr = ""
    /\ DownloadIdle

\* _empty_folder is not called
FolderIdle ==
    /\ folder = <<>>
    /\ folder_before = <<>>

\* _get_cookie is not called
CookieIdle ==
    /\ cookie_file = PyAbsent
    /\ cookie_before = PyAbsent
    /\ now = [day |-> "", midnight |-> FALSE]
    /\ cookies_stored = 0
    /\ cookie_value = PyNone

\* _commit_changes is not called
CommitIdle ==
    /\ tree = <<>>
    /\ gitignore = PyAbsent
    /\ large_report = FALSE
    /\ added = {}

\* none of the functions that look at the working directory is called
RepoIdle ==
    /\ op = "none"
    /\ opc = "idle"
    /\ report_yaml = NoReportYaml
    /\ status = PyNone
    /\ GitIdle
    /\ CommitIdle
    /\ FolderIdle
    /\ CookieIdle

InitYaml ==
    /\ \E in \in YamlInputs :
          /\ content = in[1]
          /\ template_file = in[2]
          /\ template_text = in[2]
    /\ ypc = "start"
    /\ report = NoReport
    /\ rule_i = 1
    /\ requests = <<>>
    /\ req_src = <<>>
    /\ view = NoView
    /\ parsed_content = NoView
    /\ output = PyNone
    /\ yerr = ""
    /\ debug_log = [exists |-> FALSE, lines |-> 0]
    /\ JinjaIdle
    /\ LegacyIdle
    /\ CliIdle
    /\ RepoIdle

NextYaml ==
    \/ CheckVersion
    \/ FromDict
    \/ ToTemplateFormatRule
    \/ ToTemplateFormatReturn
    \/ ParseContent
    \/ SingularsAndPlurals
    \/ RemoveRecommendations
    \/ ParseLegacy
    \/ SingularsAndPluralsLegacy
    \/ FormatTemplate

SpecYaml == InitYaml /\ [][NextYaml]_vars


\* --------------------------------------------------- report.toml inputs
TomlRule(answer, cs, text) ==
    [answer |-> answer, comments |-> cs, text |-> text, number |-> PyAbsent]

\* the rule at position i carries the number i
TomlNumbered(shapes) ==
    [i \in 1..Len(shapes) |->
        IF shapes[i].text = PyAbsent THEN shapes[i]
        ELSE [shapes[i] EXCEPT !.number = PyStr("data-" \o ToString(i))]]

Snippets == [k \in {"cite_data"} |-> "Please cite\nthe data."]

TomlCommentPool ==
    {PyAbsent, PyList(<<>>), PyList(<<"see cite_data">>),
     PyList(<<"cite_data", "missing\n  dataset">>)}

TomlRules ==
    {TomlRule(PyStr(a), c, PyStr(t)) :
        a \in {"yes", "no", "na"}, c \in TomlCommentPool, t \in {"", "Data is  cited"}}

\* a few rules, one of them with neither text nor number
FewTomlRules ==
    {TomlRule(PyStr("yes"), PyList(<<"cite_data">>), PyStr("Data is cited")),
     TomlRule(PyStr("maybe"), PyList(<<"cite_data">>), PyStr("Data is cited")),
     TomlRule(PyAbsent, PyAbsent, PyAbsent)}

TomlEntryPool ==
    {PyAbsent, PyList(<<>>), PyList(<<"cite_data">>), PyList(<<"add a README", "see cite_data">>),
     PyObjs(<<"cite_data", "add a README">>)}

Toml(has_rules, rules, recs, reqs) ==
    [metadata |-> "MS-12345", has_metadata |-> TRUE, has_rules |-> has_rules, dcas_rules |-> TomlNumbered(rules),
     recommendations |-> recs, requests |-> reqs]

TomlInputs ==
    {<<Toml(TRUE, rules, PyAbsent, PyAbsent), Snippets>> :
        rules \in UNION {[1..n -> TomlRules] : n \in 0..MaxRules}}
    \cup
    {<<Toml(TRUE, rules, recs, reqs), sn>> :
        rules \in UNION {[1..n -> FewTomlRules] : n \in 0..MaxRules},
        recs \in TomlEntryPool,
        reqs \in {PyAbsent, PyList(<<"cite_data">>)},
        sn \in {Snippets, <<>>}}
    \cup
    {<<Toml(FALSE, <<>>, recs, reqs), Snippets>> :
        recs \in TomlEntryPool, reqs \in {PyAbsent, PyList(<<"cite_data">>)}}

InitJinja ==
    /\ \E in \in TomlInputs :
          /\ report_file = in[1]
          /\ jreport = in[1]
          /\ snippets = in[2]
    /\ jpc = "substitute_tags"
    /\ jrule_i = 1
    /\ comments = <<>>
    /\ com_src = <<>>
    /\ context = <<>>
    /\ jtemplate = NoTemplate
    /\ joutput = PyNone
    /\ jerr = ""
    /\ YamlIdle
    /\ LegacyIdle
    /\ CliIdle
    /\ RepoIdle

NextJinja ==
    \/ SubstituteTags
    \/ BuildCommentsRule
    \/ BuildCommentsReturn
    \/ FilterEmptySections
    \/ RenderTemplate

SpecJinja == InitJinja /\ [][NextJinja]_vars


\* ---------------------------------------------------- legacy documents
LegacyRule(answer, order, exemption_reason) ==
    [section |-> "Data", item |-> "Citation", answer |-> answer,
     description |-> "Data is cited", order |-> order, exemption_reason |-> exemption_reason]

LegacyRules ==
    {LegacyRule(PyStr("yes"), 1, PyNone),
     LegacyRule(PyStr("no"), 2, PyNone),
     LegacyRule(PyStr("not_applicable"), 1, PyStr("no data")),
     LegacyRule(PyNone, 2, PyNone),
     LegacyRule(PyAbsent, 1, PyNone),
     LegacyRule(PyStr("unknown"), 1, PyNone)}

LegacyDoc(rules, reqs, recs, tags) ==
    [author |-> PyStr("M. Reviewer"), salutation |-> PyStr("Prof. Author"),
     email |-> PyNone, title |-> PyStr("Data Editor"), praise |-> PyNone,
     requests |-> reqs, recommendations |-> recs, DCAS_rules |-> rules, tags |-> tags]

LegacyTemplate == ResponseTemplate \o "\n\n{dcas_items}"

LegacyInputs ==
    {<<LegacyDoc(rules, reqs, recs, tags), t>> :
        rules \in UNION {[1..n -> LegacyRules] : n \in 0..MaxRules},
        reqs \in {PyAbsent, PyList(<<"share the data">>),
                  PyList(<<"share the data", "add a README">>)},
        recs \in {PyNone, PyList(<<"use relative paths">>)},
        tags \in {PyAbsent, PyList(<<"DCAS">>)},
        t \in {LegacyTemplate, EditorTemplate}}

InitLegacy ==
    /\ \E in \in LegacyInputs :
          /\ ldoc = in[1]
          /\ ltemplate = in[2]
    /\ lpc = "from_yaml"
    /\ lcontent = NoView
    /\ lparsed = NoView
    /\ loutput = PyNone
    /\ lerr = ""
    /\ YamlIdle
    /\ JinjaIdle
    /\ CliIdle
    /\ RepoIdle

NextLegacy ==
    \/ LegacyLoad
    \/ LegacyParse
    \/ LegacySingularsAndPlurals
    \/ LegacyFormat

SpecLegacy == InitLegacy /\ [][NextLegacy]_vars

\* ------------------------------------------------------ the commands run
\* rules of a report.toml the commands are run on
CliRules ==
    {TomlRule(PyStr("no"), PyList(<<"cite_data">>), PyStr("Data is cited")),
     TomlRule(PyStr("na"), PyAbsent, PyStr("Data is cited")),
     TomlRule(PyStr("unknown"), PyAbsent, PyStr("Data is cited")),
     TomlRule(PyAbsent, PyAbsent, PyStr("Data is cited"))}

\* both rules carry the number data-1
SameNumber ==
    [i \in 1..2 |->
        [TomlRule(PyStr("no"), PyList(<<"missing dataset">>), PyStr("Data is cited"))
            EXCEPT !.number = PyStr("data-1")]]

CliTomls ==
    {Toml(TRUE, rules, PyAbsent, PyAbsent) : rules \in UNION {[1..n -> CliRules] : n \in 0..MaxRules}}
    \cup {[Toml(TRUE, <<>>, PyAbsent, PyAbsent) EXCEPT !.has_metadata = FALSE],
          [Toml(TRUE, <<>>, PyAbsent, PyAbsent) EXCEPT !.dcas_rules = SameNumber],
          Toml(TRUE, <<TomlRule(PyStr("yes"), PyAbsent, PyAbsent)>>, PyAbsent, PyAbsent)}

\* branch, --no-commit, and the output file as the command finds it
CliSettings ==
    {<<"version1", FALSE, PyAbsent>>,
     <<"version2", TRUE, PyStr("Dear author,\nManuscript MS-12345")>>,
     <<"version2", FALSE, PyStr("Dear author,\nManuscript MS-12345")>>}

InitCli ==
    /\ command \in {"report", "accept", "revise"}
    /\ \E set \in CliSettings :
          /\ branch_name = set[1]
          /\ no_commit = set[2]
          /\ out_file = set[3]
    /\ report_file \in (IF command = "revise" THEN {Toml(TRUE, <<>>, PyAbsent, PyAbsent)} ELSE CliTomls)
    /\ jreport = report_file
    /\ snippets = Snippets
    /\ cpc = "start"
    /\ validation = [is_valid |-> FALSE, msg |-> ""]
    /\ template_name = ""
    /\ writes = 0
    /\ clipboard = PyNone
    /\ git_log = <<>>
    /\ stderr = <<>>
    /\ cerr = ""
    /\ community_checked = FALSE
    /\ jpc = "idle"
    /\ jrule_i = 1
    /\ comments = <<>>
    /\ com_src = <<>>
    /\ context = <<>>
    /\ jtemplate = NoTemplate
    /\ joutput = PyNone
    /\ jerr = ""
    /\ YamlIdle
    /\ LegacyIdle
    /\ RepoIdle

NextCli ==
    \/ CliValidate
    \/ CliSelectTemplate
    \/ CliGenerate
    \/ CliRenderRaised
    \/ CliWrite
    \/ CliCommit
    \/ ReviseGenerate

SpecCli == InitCli /\ [][NextCli \/ NextJinja]_vars

\* ------------------------------------------- the working directories tried
\* a rule of report.yaml, as far as get_report_status reads it
StatusRule(answer) == [answer |-> answer]

AnswerPool ==
    {PyStr("yes"), PyStr("no"), PyStr("No"), PyStr("NO"), PyStr("maybe"), PyStr("na"),
     PyAbsent, PyNone}

StatusRuleLists == UNION {[1..n -> {StatusRule(a) : a \in AnswerPool}] : n \in 0..MaxRules}

ReportYamls ==
    {NoReportYaml, ReportYaml(TRUE, FALSE, PyNone), ReportYaml(TRUE, TRUE, PyNone)}
    \cup {ReportYaml(TRUE, TRUE, YamlDict(v, PyList(rules))) :
             v \in {PyAbsent, PyInt(1), PyInt(2), PyInt(3), PyStr("2")}, rules \in StatusRuleLists}
    \cup {ReportYaml(TRUE, TRUE, YamlDict(PyInt(2), PyAbsent))}

InitStatus ==
    /\ op = "get_report_status"
    /\ opc = "start"
    /\ report_yaml \in ReportYamls
    /\ status = PyNone
    /\ GitIdle
    /\ CommitIdle
    /\ FolderIdle
    /\ CookieIdle

\* the version branches origin has; pull is run on a fresh machine, or in a clone that
\* is on author or on one of the version branches it has
PullRepo(found, at, ns) ==
    <<found, at, IF found THEN {"author", at} ELSE {}, {"author"} \cup {VersionName(n) : n \in ns}>>

PullRepos ==
    {PullRepo(found, "author", ns) : found \in BOOLEAN, ns \in SUBSET (1..MaxVersion)}
    \cup {PullRepo(TRUE, "version1", ns \cup {1}) : ns \in SUBSET (1..MaxVersion)}
    \cup {<<FALSE, "", {}, {}>>}

InitPull ==
    /\ op = "pull"
    /\ opc = "start"
    /\ \E r \in PullRepos :
          /\ package_found = r[1]
          /\ current_branch = (IF r[1] THEN r[2] ELSE "")
          /\ branch_before = current_branch
          /\ local_branches = r[3]
          /\ remote_branches = r[4]
    /\ git_cmds = <<>>
    /\ operr = ""
    /\ DownloadIdle
    /\ report_yaml = NoReportYaml
    /\ status = PyNone
    /\ CommitIdle
    /\ FolderIdle
    /\ CookieIdle

\* the repositories a download is started in: as `new` leaves one, with author only;
\* or as pull leaves one, on the latest version branch of origin, or back on author
DownloadRepos ==
    {[local |-> {"author"}, remote |-> {"author"}, at |-> "author"]}
    \cup {[local |-> {"author", VersionName(k)},
           remote |-> {"author"} \cup {VersionName(n) : n \in 1..k},
           at |-> at] :
             k \in 1..(MaxVersion - 1), at \in {"author", "version"}}

InitDownload ==
    /\ \E call \in DownloadCalls :
          /\ op = call[1]
          /\ n_files = call[2]
          /\ status_lines = call[3]
          /\ opc = (IF call[1] = "download" THEN "start" ELSE "check_branch")
    /\ \E r \in DownloadRepos :
          /\ local_branches = r.local
          /\ remote_branches = r.remote
          /\ current_branch = (IF r.at = "author" THEN "author"
                               ELSE CHOOSE b \in r.local : b # "author")
    /\ branch_before = current_branch
    /\ repo_before = [local |-> local_branches, remote |-> remote_branches]
    /\ package_found = TRUE
    /\ git_cmds = <<>>
    /\ operr = ""
    /\ has_changes = FALSE
    /\ effects = <<>>
    /\ created = ""
    /\ zenodo_saved = FALSE
    /\ report_yaml = NoReportYaml
    /\ status = PyNone
    /\ CommitIdle
    /\ FolderIdle
    /\ CookieIdle

\* the download has unpacked the package, with its code file and its data file, each
\* tracked already or new; .git holds a pack. A .gitignore is there or not.
TreeSizes == {0, size_limit - 1, size_limit, size_limit + 1}

Trees ==
    {[p \in {"big.dta", "code/run.do", ".git/pack"} |->
         [size |-> (CASE p = "big.dta" -> a [] p = "code/run.do" -> b [] OTHER -> c),
          tracked |-> (CASE p = "big.dta" -> ta [] p = "code/run.do" -> tb [] OTHER -> FALSE)]] :
        a \in TreeSizes, b \in TreeSizes, c \in {0, size_limit + 1}, ta \in BOOLEAN, tb \in BOOLEAN}

InitCommit ==
    /\ op = "_commit_changes"
    /\ opc = "start"
    /\ tree \in Trees
    /\ gitignore \in {PyAbsent, PyStr("big.dta\n*.log")}
    /\ large_report = FALSE
    /\ added = {}
    /\ GitIdle
    /\ FolderIdle
    /\ CookieIdle
    /\ report_yaml = NoReportYaml
    /\ status = PyNone

\* the folder a download is started in: .git, some of a code directory, a hidden
\* directory, a README and a .zenodo file, and `data`, which is a file, a directory or
\* not there
Folders ==
    {[name \in {".git"} \cup names \cup (IF data = "none" THEN {} ELSE {"data"}) |->
         IF name \in {".git", "code", ".github"} THEN "dir"
         ELSE IF name = "data" THEN data ELSE "file"] :
        names \in SUBSET {"code", ".github", "README.md", ".zenodo"},
        data \in {"none", "file", "dir"}}
    \cup {<<>>, [name \in {"README.md"} |-> "file"]}

InitFolder ==
    /\ op = "_empty_folder"
    /\ opc = "start"
    /\ folder \in Folders
    /\ folder_before = folder
    /\ GitIdle
    /\ CommitIdle
    /\ CookieIdle
    /\ report_yaml = NoReportYaml
    /\ status = PyNone

\* the cookie file found: none, one that expired, one that expires today, one still good
CookieFiles ==
    {PyAbsent}
    \cup {[kind |-> "cookie", value |-> "old", exp_date |-> d] :
             d \in {"2026-09-30", "2026-11-01", "2027-01-31"}}

InitCookie ==
    /\ op = "_get_cookie"
    /\ opc = "start"
    /\ cookie_file \in CookieFiles
    /\ cookie_before = cookie_file
    /\ now \in {[day |-> "2026-11-01", midnight |-> m] : m \in BOOLEAN}
    /\ cookies_stored = 0
    /\ cookie_value = PyNone
    /\ GitIdle
    /\ CommitIdle
    /\ FolderIdle
    /\ report_yaml = NoReportYaml
    /\ status = PyNone

InitRepo ==
    /\ \/ InitStatus
       \/ InitPull
       \/ InitDownload
       \/ InitCommit
       \/ InitFolder
       \/ InitCookie
    /\ YamlIdle
    /\ JinjaIdle
    /\ LegacyIdle
    /\ CliIdle

NextRepo ==
    \/ GetReportStatus
    \/ Pull
    \/ DownloadListFiles
    \/ DownloadCheckBranch
    \/ DownloadFiles
    \/ DownloadUnchanged
    \/ DownloadFirst
    \/ DownloadNewVersion
    \/ DownloadAgain
    \/ CommitChangesIgnore
    \/ CommitChangesAdd
    \/ EmptyFolder
    \/ GetCookieEnsureFile
    \/ GetCookieRead

SpecRepo == InitRepo /\ [][NextRepo]_vars

\* ------------------------------------------------------ one run, of any kind
Init == InitYaml \/ InitJinja \/ InitLegacy \/ InitCli \/ InitRepo

Next == NextYaml \/ NextJinja \/ NextLegacy \/ NextCli \/ NextRepo

Spec == Init /\ [][Next]_vars


\* =================================================================== claims
\* the rules the loop of to_template_format has gone through, and the lines of one
YamlDone == 1..(rule_i - 1)
LinesOf(i) == {k \in 1..Len(req_src) : req_src[k] = i}

\* the rules the loop of build_comments_from_dcas has gone through, and the entries of one
TomlDone == 1..(jrule_i - 1)
EntriesOf(i) == {k \in 1..Len(com_src) : com_src[k][1] = i}

\* the comments a rule of report.yaml carries: a list as it is, a string as one comment
YamlComments(rule) ==
    IF rule.comment.kind = "list" THEN rule.comment.l
    ELSE IF rule.comment.kind = "str" /\ rule.comment.s # "" THEN <<rule.comment.s>>
    ELSE <<>>

\* the comments a rule of report.toml carries
TomlComments(rule) == IF rule.comments.kind = "list" THEN rule.comments.l ELSE <<>>

\* C1: a rule answered `yes` contributes no line to the derived list, whatever its
\* comments or description are, in to_template_format and in build_comments_from_dcas:
\* no line of either list comes from a `yes` rule, and every line comes from some rule.
C1_YesRuleContributesNoLine ==
    /\ Len(req_src) = Len(requests)
    /\ \A k \in 1..Len(req_src) : content.DCAS_rules[req_src[k]].answer # "yes"
    /\ \A i \in YamlDone : content.DCAS_rules[i].answer = "yes" => LinesOf(i) = {}
    /\ Len(com_src) = Len(comments)
    /\ \A k \in 1..Len(com_src) : RulesOf(jreport)[com_src[k][1]].answer # PyStr("yes")
    /\ \A i \in TomlDone : RulesOf(jreport)[i].answer = PyStr("yes") => EntriesOf(i) = {}

\* a finished derivation in which a `yes` rule with comments stands before a rule that
\* contributed
C1_Witness ==
    /\ ypc = "done"
    /\ \E i, j \in YamlDone :
          /\ i < j
          /\ content.DCAS_rules[i].answer = "yes"
          /\ YamlComments(content.DCAS_rules[i]) # <<>>
          /\ LinesOf(j) # {}

\* a comment that is not the empty string
NonEmptyAll(cs) == \A k \in 1..Len(cs) : cs[k] # ""

\* C2: a not-applicable rule without comments contributes no line (even when it has a
\* description or text); with k >= 1 non-empty comments it contributes exactly k lines.
C2_NotApplicableRule ==
    /\ \A i \in YamlDone :
          LET rule == content.DCAS_rules[i]
              cs == YamlComments(rule)
          IN  rule.answer = "na" =>
                 /\ cs = <<>> => LinesOf(i) = {}
                 /\ cs # <<>> /\ NonEmptyAll(cs) => Cardinality(LinesOf(i)) = Len(cs)
    /\ \A i \in TomlDone :
          LET rule == RulesOf(jreport)[i]
              cs == TomlComments(rule)
          IN  rule.answer = PyStr("na") =>
                 /\ cs = <<>> => EntriesOf(i) = {}
                 /\ cs # <<>> /\ NonEmptyAll(cs) => Cardinality(EntriesOf(i)) = Len(cs)

\* the same, of to_template_format alone
C2_NotApplicableRuleYaml ==
    \A i \in YamlDone :
        LET rule == content.DCAS_rules[i]
            cs == YamlComments(rule)
        IN  rule.answer = "na" =>
               /\ cs = <<>> => LinesOf(i) = {}
               /\ cs # <<>> /\ NonEmptyAll(cs) => Cardinality(LinesOf(i)) = Len(cs)


\* "1. item1\n2. item2\n ... n. itemn"
RECURSIVE NumberedLines(_, _)
NumberedLines(items, n) ==
    IF n = 1 THEN "1. " \o items[1]
    ELSE NumberedLines(items, n - 1) \o "\n" \o ToString(n) \o ". " \o items[n]

\* what C3 says a list renders as
RenderedList(items) ==
    IF Len(items) = 0 THEN ""
    ELSE IF Len(items) = 1 THEN items[1]
    ELSE NumberedLines(items, Len(items))

\* every list of `d` is rendered in `parsed` as C3 says
ListsRendered(d, parsed) ==
    \A k \in DOMAIN d \cap DOMAIN parsed :
        d[k].kind = "list" => parsed[k] = PyStr(RenderedList(d[k].l))

\* the dict render.py's parse was applied to
YamlParsed == IF view # NoView THEN view ELSE RawContent(content)

\* C3: ordered_list renders N strings as "" when N = 0, as the bare item when N = 1,
\* and as the lines "1. item1" ... "N. itemN" joined by newlines when N > 1; of
\* every ordered_list of the repository (render.py and the legacy DCAS_scheme.py).
C3_OrderedList ==
    /\ parsed_content # NoView => ListsRendered(YamlParsed, parsed_content)
    /\ lparsed # NoView => ListsRendered(lcontent, lparsed)

\* the same, of render.py's ordered_list alone
C3_OrderedListRender == parsed_content # NoView => ListsRendered(YamlParsed, parsed_content)

\* the number of non-overlapping places where sub stands in s
RECURSIVE OccFrom(_, _, _)
OccFrom(s, sub, i) ==
    LET j == FirstAt(s, sub, i)
    IN  IF j = 0 THEN 0 ELSE 1 + OccFrom(s, sub, j + Len(sub))

Occ(s, sub) == OccFrom(s, sub, 1)

\* the entries of a derived list; a value that is one string is one entry
Entries(v) == IF v.kind = "list" THEN Len(v.l) ELSE 1

\* t1 is t0 with each plural phrase made singular exactly when its list has one entry
PhrasesAdjusted(t0, t1, reqs, recs) ==
    LET req_hits == IF Entries(reqs) = 1 THEN Occ(t0, PluralRequests) ELSE 0
        rec_hits == IF Entries(recs) = 1 THEN Occ(t0, PluralRecommendations) ELSE 0
    IN  /\ Occ(t1, PluralRequests) = Occ(t0, PluralRequests) - req_hits
        /\ Occ(t1, SingularRequests) = Occ(t0, SingularRequests) + req_hits
        /\ Occ(t1, PluralRecommendations) = Occ(t0, PluralRecommendations) - rec_hits
        \* the singular recommendations phrase is a prefix of the plural one
        /\ Occ(t1, SingularRecommendations) = Occ(t0, SingularRecommendations)
        /\ Len(t0) - Len(t1) = req_hits + rec_hits
        /\ req_hits + rec_hits = 0 => t1 = t0

\* C4: singulars_and_plurals makes the requests phrase singular iff the requests list
\* has exactly one entry, and the recommendations phrase singular iff the
\* recommendations list has exactly one entry; with zero or two or more entries the
\* phrase stays, and neither list affects the other's phrase.
C4_SingularsAndPlurals ==
    /\ ypc = "elide" =>
          PhrasesAdjusted(template_file, template_text, view["requests"],
                          view["recommendations"])
    /\ ypc = "format" /\ view = NoView =>
          PhrasesAdjusted(template_file, template_text, content.requests,
                          content.recommendations)

\* one request and two recommendations, in a template that has both phrases
C4_Witness ==
    /\ ypc = "elide"
    /\ Len(view["requests"].l) = 1
    /\ view["recommendations"].kind = "list" /\ Len(view["recommendations"].l) = 2
    /\ Contains(template_file, PluralRequests)
    /\ Contains(template_file, PluralRecommendations)
    /\ Contains(template_text, SingularRequests)
    /\ Contains(template_text, PluralRecommendations)

RecommendationsIntro == "In addition, please consider the following recommendation"

\* the recommendations generate_report rendered
YamlRecommendations ==
    IF view # NoView THEN view["recommendations"] ELSE content.recommendations

\* the recommendations of report.toml
TomlRecommendations == jreport.recommendations

\* C5: when the recommendations list is empty the rendered output has neither the
\* recommendations introduction nor the placeholder span; when it is not empty the
\* introduction and the rendered recommendations are both there.  (render.py: of an
\* output rendered from a template that has the span; render_jinja2.py: of the
\* section handed to the template.)
C5_EmptyRecommendationsElided ==
    /\ ypc = "done" /\ Contains(template_file, RecommendationsSpan) =>
          IF Truthy(YamlRecommendations)
          THEN /\ Contains(output.s, RecommendationsIntro)
               /\ Contains(output.s, PyToStr(parse(YamlRecommendations)))
          ELSE /\ ~Contains(output.s, RecommendationsIntro)
               /\ ~Contains(output.s, "{recommendations}")
    /\ jpc = "done" =>
          ("recommendations" \in DOMAIN context <=> Truthy(TomlRecommendations))

\* the same, of the reports generate_report takes as version >= 2
C5_EmptyRecommendationsElidedV2 ==
    /\ ypc = "done" /\ view # NoView /\ Contains(template_file, RecommendationsSpan) =>
          IF Truthy(YamlRecommendations)
          THEN /\ Contains(output.s, RecommendationsIntro)
               /\ Contains(output.s, PyToStr(parse(YamlRecommendations)))
          ELSE /\ ~Contains(output.s, RecommendationsIntro)
               /\ ~Contains(output.s, "{recommendations}")
    /\ jpc = "done" =>
          ("recommendations" \in DOMAIN context <=> Truthy(TomlRecommendations))


\* the place of line k among the lines of its rule
YamlRank(k) == Cardinality({m \in LinesOf(req_src[k]) : m <= k})
TomlRank(k) == Cardinality({m \in EntriesOf(com_src[k][1]) : m <= k})

\* s without its whitespace characters
RECURSIVE Squeezed(_)
Squeezed(s) ==
    IF s = "" THEN ""
    ELSE IF IsSpace(Head(s)) THEN Squeezed(Tail(s))
    ELSE Head(s) \o Squeezed(Tail(s))

\* t is src with every run of whitespace made one space, and none at either end
Collapsed(t, src) ==
    /\ Squeezed(t) = Squeezed(src)
    /\ \A i \in 1..Len(t) : IsSpace(Char(t, i)) =>
          /\ Char(t, i) = " "
          /\ 1 < i /\ i < Len(t)
          /\ ~IsSpace(Char(t, i + 1))
    /\ \A i \in 1..(Len(src) - 1) :
          ~IsSpace(Char(src, i)) /\ ~IsSpace(Char(src, i + 1)) =>
             \E j \in 1..(Len(t) - 1) : SubSeq(t, j, j + 1) = SubSeq(src, i, i + 1)
    /\ Len(t) = Len(Squeezed(src)) + (IF Split(src) = <<>> THEN 0 ELSE Len(Split(src)) - 1)

\* the text entry k of `comments` was made from
TomlSource(k) ==
    LET rule == RulesOf(jreport)[com_src[k][1]]
    IN  IF com_src[k][2] = 0 THEN rule.text.s ELSE rule.comments.l[com_src[k][2]]

YamlBare(rule) == rule.answer \notin {"yes", "na"} /\ YamlComments(rule) = <<>>
TomlBare(rule) ==
    /\ rule.answer \notin {PyStr("yes"), PyStr("na")}
    /\ TomlComments(rule) = <<>>
    /\ rule.text.kind = "str" /\ rule.text.s # ""

\* C7 as it stands: a rule that is not skipped, has no comments and has a description
\* contributes exactly one line, whose text is the description.
C7_DescriptionFallback ==
    /\ \A i \in YamlDone :
          LET rule == content.DCAS_rules[i]
          IN  YamlBare(rule) /\ rule.description.kind = "str" =>
                 \E k \in 1..Len(requests) :
                    /\ LinesOf(i) = {k}
                    /\ requests[k] = rule.description.s \o " (" \o rule.dcas_reference.s \o ")"
    /\ \A i \in TomlDone :
          LET rule == RulesOf(jreport)[i]
          IN  TomlBare(rule) =>
                 \E k \in 1..Len(comments) :
                    /\ EntriesOf(i) = {k}
                    /\ comments[k].text = rule.text.s

\* C7, amended: in build_comments_from_dcas such a rule contributes exactly one entry,
\* whose text is the rule's text with its whitespace collapsed; in to_template_format
\* it contributes no line.
C7_DescriptionFallbackAmended ==
    /\ \A i \in YamlDone :
          YamlBare(content.DCAS_rules[i]) => LinesOf(i) = {}
    /\ \A i \in TomlDone :
          LET rule == RulesOf(jreport)[i]
          IN  TomlBare(rule) =>
                 \E k \in 1..Len(comments) :
                    /\ EntriesOf(i) = {k}
                    /\ com_src[k] = <<i, 0>>
                    /\ Collapsed(comments[k].text, rule.text.s)

\* a rule of report.toml answered `no`, without comments, whose text made an entry
C7_Witness ==
    /\ jpc = "done"
    /\ \E i \in TomlDone :
          /\ RulesOf(jreport)[i].answer = PyStr("no")
          /\ TomlBare(RulesOf(jreport)[i])
          /\ EntriesOf(i) # {}

\* C8: the derived list follows document order: the lines of an earlier rule stand
\* before those of a later rule, the lines of one rule stand in the order of its
\* comments, one per comment, and the list handed on is the list as it was built.
C8_DocumentOrder ==
    /\ \A k, m \in 1..Len(req_src) : k < m => req_src[k] <= req_src[m]
    /\ \A i \in YamlDone :
          LET rule == content.DCAS_rules[i]
          IN  rule.answer # "yes" => Cardinality(LinesOf(i)) = Len(YamlComments(rule))
    /\ \A k \in 1..Len(requests) :
          LET rule == content.DCAS_rules[req_src[k]]
          IN  requests[k] = YamlComments(rule)[YamlRank(k)] \o " (" \o rule.dcas_reference.s \o ")"
    /\ view # NoView => view["requests"] = PyList(requests)
    /\ \A k, m \in 1..Len(com_src) :
          k < m => \/ com_src[k][1] < com_src[m][1]
                   \/ com_src[k][1] = com_src[m][1] /\ com_src[k][2] < com_src[m][2]
    /\ \A i \in TomlDone :
          LET rule == RulesOf(jreport)[i]
          IN  rule.answer # PyStr("yes") /\ TomlComments(rule) # <<>> =>
                 Cardinality(EntriesOf(i)) = Len(TomlComments(rule))
    /\ \A k \in 1..Len(comments) :
          /\ com_src[k][2] # 0 => com_src[k][2] = TomlRank(k)
          /\ Squeezed(comments[k].text) = Squeezed(TomlSource(k))
    /\ "comments" \in DOMAIN context => context["comments"] = comments

\* two rules that both contributed, the later one two lines
C8_Witness ==
    /\ ypc = "done"
    /\ Len(requests) >= 3
    /\ \E i, j \in YamlDone : i < j /\ LinesOf(i) # {} /\ Cardinality(LinesOf(j)) = 2

\* substitute_tags has returned
Substituted == jpc \in {"build_comments", "filter", "render", "done", "error"}

\* entry by entry: where `before` is not a key of the snippet table, `after` is `before`
EntriesKept(before, after) ==
    /\ Len(after) = Len(before)
    /\ \A k \in 1..Len(before) : before[k] \notin DOMAIN snippets => after[k] = before[k]

\* entry by entry: where `before` is a key of the snippet table, `after` is its value
EntriesResolved(before, after) ==
    /\ Len(after) = Len(before)
    /\ \A k \in 1..Len(before) : before[k] \in DOMAIN snippets => after[k] = snippets[before[k]]

\* C9: resolving a text that is not a key of the snippet table returns it unchanged,
\* and raises nothing: after substitute_tags every comment, recommendation and request
\* of report.toml that is no key stands unchanged in its place.
C9_NonKeyUnchanged ==
    Substituted =>
        /\ jreport.has_rules = report_file.has_rules
        /\ Len(jreport.dcas_rules) = Len(report_file.dcas_rules)
        /\ \A i \in 1..Len(report_file.dcas_rules) :
              /\ jreport.dcas_rules[i].comments.kind = report_file.dcas_rules[i].comments.kind
              /\ EntriesKept(report_file.dcas_rules[i].comments.l, jreport.dcas_rules[i].comments.l)
        /\ jreport.recommendations.kind = report_file.recommendations.kind
        /\ EntriesKept(report_file.recommendations.l, jreport.recommendations.l)
        /\ jreport.requests.kind = report_file.requests.kind
        /\ EntriesKept(report_file.requests.l, jreport.requests.l)

\* a report with a comment that contains a key without being one, after a substitution
\* that replaced another entry
C9_Witness ==
    /\ Substituted
    /\ jreport # report_file
    /\ \E i \in 1..Len(report_file.dcas_rules) :
          \E k \in 1..Len(report_file.dcas_rules[i].comments.l) :
             LET c == report_file.dcas_rules[i].comments.l[k]
             IN  /\ c \notin DOMAIN snippets
                 /\ \E key \in DOMAIN snippets : Contains(c, key)
                 /\ jreport.dcas_rules[i].comments.l[k] = c

\* C10: after substitute_tags every rule comment, recommendation and request that
\* equals a key of the snippet table is replaced by the key's value, and the comments
\* build_comments_from_dcas derives carry the resolved text (up to whitespace).
C10_SnippetResolution ==
    Substituted =>
        /\ \A i \in 1..Len(report_file.dcas_rules) :
              EntriesResolved(report_file.dcas_rules[i].comments.l, jreport.dcas_rules[i].comments.l)
        /\ EntriesResolved(report_file.recommendations.l, jreport.recommendations.l)
        /\ EntriesResolved(report_file.requests.l, jreport.requests.l)
        /\ \A k \in 1..Len(comments) :
              com_src[k][2] # 0 =>
                 Squeezed(comments[k].text) =
                    Squeezed(Lookup(snippets, report_file.dcas_rules[com_src[k][1]].comments.l[com_src[k][2]]))

\* the same, of a report.toml that has a dcas_rules key
C10_SnippetResolutionWithRules ==
    Substituted /\ report_file.has_rules =>
        /\ \A i \in 1..Len(report_file.dcas_rules) :
              EntriesResolved(report_file.dcas_rules[i].comments.l, jreport.dcas_rules[i].comments.l)
        /\ EntriesResolved(report_file.recommendations.l, jreport.recommendations.l)
        /\ EntriesResolved(report_file.requests.l, jreport.requests.l)


\* the command has had the answer of validate_toml
Validated == command \in {"report", "accept"} /\ cpc # "start"

\* from_dict has been called, or the version test has raised
PastFromDict == ypc \notin {"idle", "start", "from_dict"}

\* the four verdicts of the enumeration
FourVerdicts == {"yes", "no", "maybe", "na"}

\* C11: in a strict dialect (report.yaml of version >= 2, report.toml under validate_toml)
\* a rule whose verdict is none of the four recognized values makes validation fail with
\* an error that names the rule's reference, and neither a request list nor a rendered
\* text is produced.
C11_StrictVerdictError ==
    /\ PastFromDict /\ content.version.kind = "int" /\ content.version.n >= 2 =>
          \A i \in 1..Len(content.DCAS_rules) :
             content.DCAS_rules[i].answer \notin FourVerdicts =>
                /\ ypc = "error" /\ yerr = "ValidationError"
                /\ Contains(ValidationMessage(content), content.DCAS_rules[i].dcas_reference.s)
                /\ requests = <<>> /\ view = NoView /\ output = PyNone
    /\ Validated =>
          \A i \in 1..Len(report_file.dcas_rules) :
             LET rule == report_file.dcas_rules[i]
             IN  rule.answer.kind = "str" /\ rule.answer.s \notin FourVerdicts /\ rule.number.kind = "str" =>
                    /\ ~validation.is_valid
                    /\ Contains(validation.msg, rule.number.s)
                    /\ jpc = "idle" /\ comments = <<>> /\ joutput = PyNone /\ writes = 0

\* the same without the demand on the error's text: the report is rejected and nothing
\* is derived or rendered
C11_StrictVerdictRejected ==
    /\ PastFromDict /\ content.version.kind = "int" /\ content.version.n >= 2 =>
          \A i \in 1..Len(content.DCAS_rules) :
             content.DCAS_rules[i].answer \notin FourVerdicts =>
                /\ ypc = "error" /\ yerr = "ValidationError"
                /\ requests = <<>> /\ view = NoView /\ output = PyNone
    /\ Validated =>
          \A i \in 1..Len(report_file.dcas_rules) :
             LET rule == report_file.dcas_rules[i]
             IN  rule.answer.kind = "str" /\ rule.answer.s \notin FourVerdicts =>
                    /\ ~validation.is_valid
                    /\ jpc = "idle" /\ comments = <<>> /\ joutput = PyNone /\ writes = 0

\* every rule of the report has a text and a verdict among `verdicts`
WellFormed(data, verdicts) ==
    /\ data.has_metadata
    /\ \A i \in 1..Len(data.dcas_rules) :
          /\ data.dcas_rules[i].text.kind = "str"
          /\ data.dcas_rules[i].answer.kind = "str"
          /\ data.dcas_rules[i].answer.s \in verdicts

\* C12: a report.toml with a metadata section whose rules each have a text and one of the
\* four enumerated verdicts is reported valid by validate_toml.
C12_ValidationAcceptsFourVerdicts ==
    Validated /\ WellFormed(report_file, FourVerdicts) => validation.is_valid

\* the same of the verdicts yes, no and maybe
C12_ValidationAcceptsThreeVerdicts ==
    Validated /\ WellFormed(report_file, {"yes", "no", "maybe"}) =>
        validation = [is_valid |-> TRUE, msg |-> "Valid"]


\* DCASTemplate.from_yaml has returned or raised
LegacyLoaded == lpc \notin {"idle", "from_yaml"}

\* the line of dcas_items made from rule i of the document
LegacyShown(i) ==
    \E k \in 1..Len(lcontent["dcas_items"].l) :
       /\ SortedByOrder(ldoc.DCAS_rules)[k] = ldoc.DCAS_rules[i]
       /\ Contains(lcontent["dcas_items"].l[k], ": not_evaluated")

\* C13: a legacy-dialect report containing a rule with an unrecognized or missing verdict
\* is rendered without failing, and that rule is shown as not evaluated.
C13_LegacyLenient ==
    /\ LegacyLoaded =>
          /\ lerr # "ValidationError"
          /\ \A i \in 1..Len(ldoc.DCAS_rules) :
                ~(ldoc.DCAS_rules[i].answer.kind = "str"
                    /\ ldoc.DCAS_rules[i].answer.s \in LegacyResponseType) => LegacyShown(i)
    /\ PastFromDict /\ content.version.kind = "int" /\ content.version.n < 2 =>
          yerr # "ValidationError"

\* the same of a missing verdict only (no answer key, or answer: null)
C13_LegacyMissingVerdict ==
    LegacyLoaded /\ (\A i \in 1..Len(ldoc.DCAS_rules) : ldoc.DCAS_rules[i].answer.kind # "str") =>
        /\ lerr # "ValidationError"
        /\ \A i \in 1..Len(ldoc.DCAS_rules) : LegacyShown(i)

\* the positions of generate_report after its else branch was taken
LegacyBranch == {"parse_legacy", "plurals_legacy", "format", "done", "error"}

\* C14: the dialect is selected from `version`: a report whose version is absent and a
\* report whose version is below 2 are processed as the legacy dialect, without strict
\* validation and without an error caused by the missing version; a report of version
\* >= 2 is processed as strict.
C14_DialectFromVersion ==
    ypc \notin {"idle", "start"} =>
        IF content.version.kind = "int" /\ content.version.n >= 2
        THEN ypc \notin {"parse_legacy", "plurals_legacy"} /\ (ypc # "from_dict" /\ report = NoReport => yerr = "ValidationError")
        ELSE /\ yerr \notin {"TypeError", "ValidationError"}
             /\ report = NoReport
             /\ ypc \in LegacyBranch

\* the same of reports that have a version
C14_DialectFromVersionGiven ==
    ypc \notin {"idle", "start"} /\ content.version.kind = "int" =>
        IF content.version.n >= 2
        THEN ypc \notin {"parse_legacy", "plurals_legacy"} /\ (ypc # "from_dict" /\ report = NoReport => yerr = "ValidationError")
        ELSE /\ yerr \notin {"TypeError", "ValidationError"}
             /\ report = NoReport
             /\ ypc \in LegacyBranch

\* the rule has no name, or the empty name
Nameless(rule) == rule.name.kind # "str" \/ rule.name.s = ""

\* C15: in the named-rule dialect (version 3) a rule with no name or an empty name makes
\* parsing fail with a schema error; such a document is never turned into a derived view.
C15_NamedDialectRequiresName ==
    /\ PastFromDict /\ content.version = PyInt(3)
          /\ (\E i \in 1..Len(content.DCAS_rules) : Nameless(content.DCAS_rules[i])) =>
       /\ ypc = "error" /\ yerr = "ValidationError"
       /\ view = NoView

\* C16: rule references are unique within every accepted document: a report in which two
\* rules carry the same reference is rejected, so no derived list has lines from two
\* different rules with the same reference.
C16_UniqueReferences ==
    /\ \A k, m \in 1..Len(req_src) :
          req_src[k] # req_src[m] =>
             content.DCAS_rules[req_src[k]].dcas_reference # content.DCAS_rules[req_src[m]].dcas_reference
    /\ PastFromDict /\ ypc # "error" /\ content.version.kind = "int" /\ content.version.n >= 2 =>
          \A i, j \in 1..Len(content.DCAS_rules) :
             i # j => content.DCAS_rules[i].dcas_reference # content.DCAS_rules[j].dcas_reference
    /\ Validated /\ validation.is_valid =>
          \A i, j \in 1..Len(report_file.dcas_rules) :
             i # j /\ report_file.dcas_rules[i].number.kind = "str" =>
                report_file.dcas_rules[i].number # report_file.dcas_rules[j].number


\* the names {{ name }} of a Jinja2 template
JinjaNames(parts) == {parts[k].s : k \in {j \in 1..Len(parts) : parts[j].kind = "var"}}

\* C17: rendering a template with a named placeholder for which the derived view has no
\* field fails and yields no text; a text is never returned with the placeholder blank
\* or left in place. Of the str.format renderers and of the Jinja2 renderer.
C17_UnresolvedPlaceholderFatal ==
    /\ ypc = "done" => Fields(template_text) \subseteq DOMAIN parsed_content
    /\ output # PyNone => ypc = "done"
    /\ lpc = "done" => Fields(ltemplate) \subseteq DOMAIN lparsed
    /\ loutput # PyNone => lpc = "done"
    /\ jpc = "done" => JinjaNames(jtemplate.parts) \subseteq DOMAIN context
    /\ joutput # PyNone => jpc = "done"

\* the same of the str.format renderers alone, with the error named
C17_FormatPlaceholderFatal ==
    /\ ypc = "done" => Fields(template_text) \subseteq DOMAIN parsed_content
    /\ output # PyNone => ypc = "done"
    /\ ypc \in {"done", "error"} /\ view # NoView /\ ~(Fields(template_text) \subseteq DOMAIN parsed_content) =>
          ypc = "error" /\ yerr = "KeyError" /\ output = PyNone
    /\ lpc = "done" => Fields(ltemplate) \subseteq DOMAIN lparsed
    /\ loutput # PyNone => lpc = "done"

\* C18: the loaded document is never mutated after construction: after snippet resolution
\* and derivation its rule comments, recommendations and requests equal their values
\* before the call.
C18_DocumentNotMutated ==
    /\ Substituted =>
          /\ \A i \in 1..Len(report_file.dcas_rules) :
                jreport.dcas_rules[i].comments = report_file.dcas_rules[i].comments
          /\ jreport.recommendations = report_file.recommendations
          /\ jreport.requests = report_file.requests
    /\ report # NoReport => report = from_dict(content)

\* the same of the validated ReportTemplate alone: to_template_format leaves it as
\* from_dict built it
C18_ValidatedModelNotMutated ==
    report # NoReport => report = from_dict(content)

\* C19: deriving the requests list from a validated document has no side effect and does
\* no external I/O: for every validated document, with or without rule names,
\* to_template_format completes, leaves every file unchanged, and returns a view that
\* depends only on the document.
C19_DerivationNoSideEffect ==
    /\ debug_log = [exists |-> FALSE, lines |-> 0]
    /\ yerr # "AttributeError"
    /\ view # NoView => view = to_template_format_result(report, requests)

\* the output file as the command found it
FoundOutput ==
    CHOOSE f \in {set[3] : set \in {x \in CliSettings : x[1] = branch_name /\ x[2] = no_commit}} : TRUE

\* the command has written nothing, copied nothing and run no git command
Untouched ==
    /\ writes = 0
    /\ out_file = FoundOutput
    /\ clipboard = PyNone
    /\ git_log = <<>>

\* C20: a failed render yields no output: in report, accept and revise, if validation
\* fails or rendering raises, the output file is neither written nor changed, nothing is
\* copied to the clipboard, and no git add, commit, tag or push is run; whatever is
\* written is the whole text generate_report returned for a report found valid.
C20_FailedRenderNoOutput ==
    command # "none" =>
        /\ cpc = "error" \/ (cpc = "returned" /\ ~validation.is_valid) => Untouched
        /\ cpc = "error" => cerr # ""
        /\ ~Untouched =>
              /\ validation.is_valid
              /\ jpc = "done"
              /\ joutput.kind = "str"
              /\ out_file = joutput
              /\ cerr = ""

\* accept found the report valid, the renderer raised, and accept.txt is as it was
C20_Witness ==
    /\ command = "accept"
    /\ cpc = "error"
    /\ validation.is_valid
    /\ cerr = "TemplateNotFound"
    /\ out_file.kind = "str"
    /\ Untouched

\* the texts of report.toml's recommendations, each looked up in the snippet table
ResolvedRecommendations ==
    [k \in 1..Len(report_file.recommendations.l) |->
        Lookup(snippets, report_file.recommendations.l[k])]

\* report.toml has recommendations, as an array of strings or as an array of tables
HasRecommendations ==
    /\ report_file.recommendations.kind \in {"list", "objs"}
    /\ report_file.recommendations.l # <<>>

\* C21: recommendations are normalized to plain strings: whether report.toml gives them
\* as an array of strings or as an array of tables with a `text` field, the
\* recommendations handed to the template are a sequence of plain strings in input
\* order, each equal to the input text after snippet resolution.
C21_RecommendationsPlainStrings ==
    jpc = "done" /\ HasRecommendations =>
        /\ "recommendations" \in DOMAIN context
        /\ context["recommendations"] = PyList(ResolvedRecommendations)

\* C21, as far as the code goes: an array of strings of a report.toml that has a
\* dcas_rules key reaches the template as plain strings, resolved, in input order
C21_StringRecommendationsResolved ==
    jpc = "done" /\ HasRecommendations /\ report_file.has_rules
                 /\ report_file.recommendations.kind = "list" =>
        /\ "recommendations" \in DOMAIN context
        /\ context["recommendations"] = PyList(ResolvedRecommendations)

\* get_report_status has returned
StatusReturned == op = "get_report_status" /\ opc = "returned"

\* report.yaml has version >= 2 and a non-empty DCAS_rules list
CurrentWithRules ==
    /\ report_yaml.exists
    /\ report_yaml.loads
    /\ report_yaml.content # PyNone
    /\ report_yaml.content.version.kind = "int"
    /\ report_yaml.content.version.n >= 2
    /\ report_yaml.content.DCAS_rules.kind = "list"
    /\ report_yaml.content.DCAS_rules.l # <<>>

\* the answer of some rule is `no`, in whatever case
SomeAnswerNo ==
    \E i \in 1..Len(report_yaml.content.DCAS_rules.l) :
        report_yaml.content.DCAS_rules.l[i].answer \in
            {PyStr("no"), PyStr("No"), PyStr("nO"), PyStr("NO")}

\* every answer given is a text
AnswersAreText ==
    \A i \in 1..Len(report_yaml.content.DCAS_rules.l) :
        report_yaml.content.DCAS_rules.l[i].answer.kind \in {"str", "absent"}

\* report.yaml is of a legacy version, has no rule, or cannot be read or parsed
LegacyEmptyOrUnreadable ==
    /\ report_yaml.exists
    /\ \/ ~report_yaml.loads
       \/ report_yaml.content = PyNone
       \/ report_yaml.content.version = PyAbsent
       \/ report_yaml.content.version.kind = "int" /\ report_yaml.content.version.n < 2
       \/ report_yaml.content.DCAS_rules = PyAbsent
       \/ report_yaml.content.DCAS_rules = PyList(<<>>)

\* C22: for a report.yaml with version >= 2 and a non-empty DCAS_rules list,
\* get_report_status returns "issues" if and only if at least one rule's answer is `no`
\* (compared case-insensitively) and "good" otherwise, so maybe and na never count as
\* issues; it returns None when report.yaml does not exist, and "report" for a legacy
\* version, an empty rule list or a read or parse error.
C22_ReportStatus ==
    StatusReturned =>
        /\ ~report_yaml.exists => status = PyNone
        /\ LegacyEmptyOrUnreadable => status = PyStr("report")
        /\ CurrentWithRules =>
              status = IF SomeAnswerNo THEN PyStr("issues") ELSE PyStr("good")

\* C22, as far as the code goes: the same, for a report.yaml whose answers are all texts
C22_ReportStatusOfTextAnswers ==
    StatusReturned =>
        /\ ~report_yaml.exists => status = PyNone
        /\ LegacyEmptyOrUnreadable => status = PyStr("report")
        /\ CurrentWithRules /\ AnswersAreText =>
              status = IF SomeAnswerNo THEN PyStr("issues") ELSE PyStr("good")

\* the command has ended: it returned, or an exception left it
CommandEnded == command # "none" /\ cpc \in {"returned", "error"}

\* the command opened its output file and wrote the text generated
OutputWritten == writes = 1 /\ out_file.kind = "str" /\ (command # "revise" => out_file = joutput)

\* C23: with --no-commit, each of revise, report and accept generates and writes its
\* output file but runs no git add, commit, tag or push, and accept makes no community
\* check; without --no-commit and after a successful validation, accept creates the tag
\* `accepted` and pushes tags in every run that completes, whether or not there were
\* changes to commit.
C23_NoCommitWritesOnly ==
    /\ CommandEnded /\ no_commit =>
          /\ git_log = <<>>
          /\ ~community_checked
          /\ command = "revise" \/ (cpc = "returned" /\ validation.is_valid) => OutputWritten
    /\ command = "accept" /\ cpc = "returned" /\ ~no_commit /\ validation.is_valid =>
          /\ \E k \in 1..Len(git_log) : git_log[k] = "tag accepted"
          /\ git_log[Len(git_log)] = "push --tags"

\* C23, as far as the code goes: the same of report and accept
C23_ReportAcceptNoCommit ==
    /\ CommandEnded /\ no_commit =>
          /\ git_log = <<>>
          /\ ~community_checked
          /\ command # "revise" /\ cpc = "returned" /\ validation.is_valid => OutputWritten
    /\ command = "accept" /\ cpc = "returned" /\ ~no_commit /\ validation.is_valid =>
          /\ \E k \in 1..Len(git_log) : git_log[k] = "tag accepted"
          /\ git_log[Len(git_log)] = "push --tags"
          /\ community_checked

\* pull has ended
PullEnded == op = "pull" /\ opc \in {"returned", "error"}

\* the numbers n for which origin has a branch version{n}
RemoteVersions == {n \in 1..MaxVersion : VersionName(n) \in remote_branches}

\* the branch pull is on if it switches to none: the one it was on, or the one the
\* clone checked out
BranchUnswitched ==
    IF package_found THEN branch_before ELSE IF remote_branches = {} THEN "" ELSE "author"

\* C24: pull switches to the latest version branch: among the branches of origin whose
\* name contains `version` it switches to version{m}, m the numerically greatest suffix
\* (version10 is later than version9); when there is no such branch it switches to
\* nothing and stays on the current branch.
C24_PullLatestVersion ==
    PullEnded =>
        /\ opc = "returned"
        /\ RemoteVersions # {} =>
              /\ \E m \in RemoteVersions :
                    /\ \A n \in RemoteVersions : n <= m
                    /\ current_branch = VersionName(m)
                    /\ git_cmds[Len(git_cmds)] = "switch " \o VersionName(m)
              /\ Len(git_cmds) = 2
        /\ RemoteVersions = {} =>
              /\ current_branch = BranchUnswitched
              /\ Len(git_cmds) = 1
              /\ git_cmds[1] \in {"pull", "clone"}

\* origin has version9 and version10, and pull has switched to version10
C24_Witness ==
    /\ PullEnded
    /\ {9, 10} \subseteq RemoteVersions
    /\ current_branch = "version10"
    /\ branch_before = "author"

\* a download is run
Downloading == op \in {"download_withurl", "download"}

\* `git status --porcelain` lists a change to a tracked file: a line that does not
\* begin with ??
TrackedFileChanged == \E line \in status_lines : SubSeq(line, 1, 2) # "??"

\* the call has removed a directory or downloaded a file
Fetched == \E k \in 1..Len(effects) : effects[k] \in {"_empty_folder", "GET content"}

\* C25: in every download path (download_withurl, the single-file download,
\* _download_multiple_files), if the current branch is not author and git status lists
\* uncommitted changes to tracked files, the command exits with an error before it
\* switches branch, before it removes a directory and before it downloads anything;
\* untracked files alone never block the download.
C25_TrackedChangesBlockDownload ==
    Downloading /\ branch_before # "author" =>
        /\ TrackedFileChanged =>
              /\ opc \in {"start", "check_branch", "error"}
              /\ opc = "error" => operr = "SystemExit"
              /\ git_cmds = <<>>
              /\ current_branch = branch_before
              /\ ~Fetched
        /\ ~TrackedFileChanged /\ operr = "SystemExit" => op = "download" /\ n_files = 0

\* _download_multiple_files, called on a version branch with a modified report.toml and
\* an untracked file, has exited before doing anything
C25_Witness ==
    /\ op = "download"
    /\ Path = "_download_multiple_files"
    /\ branch_before = "version3"
    /\ status_lines = {" M report.toml", "?? notes.txt"}
    /\ opc = "error"
    /\ operr = "SystemExit"

\* the download has returned after it found changes
ChangedDownloadReturned == Downloading /\ opc = "returned" /\ has_changes

\* the branches there were before the call, local and of origin
BranchesBefore == repo_before.local \cup repo_before.remote

\* the branch created is version1 if there was no local branch but author, and otherwise
\* version{n+1}, n the greatest number of a version branch, local or of origin
NumberedNext ==
    IF repo_before.local \ {"author"} = {} THEN created = "version1"
    ELSE \E n \in 1..MaxVersion :
            /\ VersionName(n) \in BranchesBefore
            /\ \A m \in 1..MaxVersion : VersionName(m) \in BranchesBefore => m <= n
            /\ created = VersionName(n + 1)

\* the call has pushed the branch it created
CreatedPushed ==
    /\ created \in remote_branches
    /\ \E k \in 1..Len(git_cmds) : git_cmds[k] = "push -u origin " \o created

\* C26: version branches are numbered without reuse: a download that detects changes
\* creates version1 when no local branch other than author exists and otherwise
\* version{n+1}, n the greatest numeric version suffix among all local and remote
\* branches; after any sequence of downloads the branch just created never has the name
\* of a branch that existed already, and the new branch is pushed to origin.
C26_VersionsNumberedAndPushed ==
    ChangedDownloadReturned =>
        /\ NumberedNext
        /\ created \notin BranchesBefore
        /\ current_branch = created
        /\ CreatedPushed

\* C26, as far as the code goes: the numbering, and the push in every path but the first
\* download of download_withurl
C26_VersionsNumbered ==
    ChangedDownloadReturned =>
        /\ NumberedNext
        /\ created \notin BranchesBefore
        /\ current_branch = created
        /\ Path # "download_withurl" \/ created # "version1" => CreatedPushed

\* the download has ended, and git status listed no change after `git add .`
UnchangedDownloadEnded ==
    /\ Downloading
    /\ opc \in {"returned", "error"}
    /\ effects # <<>> /\ effects[Len(effects)] = "_commit_changes"
    /\ ~has_changes

\* the call ran `git commit`
CommitAttempted == \E k \in 1..Len(git_cmds) : StartsWithAt(git_cmds[k], "commit", 1)

\* the call ends on the latest version branch there is, if there is any
OnLatestVersion ==
    \A n \in 1..MaxVersion :
        /\ VersionName(n) \in BranchesBefore
        /\ \A m \in 1..MaxVersion : VersionName(m) \in BranchesBefore => m <= n
        => current_branch = VersionName(n)

\* C27: in every download path, a download after which git status reports no changes
\* attempts no commit and creates no new version branch; it ends on the latest existing
\* version branch when there is one, and still records the Zenodo metadata.
C27_UnchangedDownloadCommitsNothing ==
    UnchangedDownloadEnded =>
        /\ ~CommitAttempted
        /\ created = ""
        /\ local_branches \cup remote_branches \subseteq BranchesBefore
        /\ OnLatestVersion
        /\ zenodo_saved

\* C27, as far as the code goes: the same of download_withurl, and of the other two
\* paths when there is a local branch other than author
C27_UnchangedLaterDownload ==
    UnchangedDownloadEnded /\ (Path = "download_withurl" \/ repo_before.local # {"author"}) =>
        /\ ~CommitAttempted
        /\ created = ""
        /\ local_branches \cup remote_branches \subseteq BranchesBefore
        /\ OnLatestVersion
        /\ zenodo_saved

\* the lines of .gitignore
GitignoreLines == IF gitignore.kind = "str" THEN Split(gitignore.s) ELSE <<>>
Listed(p) == \E k \in 1..Len(GitignoreLines) : GitignoreLines[k] = p

C29_EmptyFolderKeepsGitAndFiles ==
    op = "_empty_folder" /\ opc = "returned" =>
        \A name \in DOMAIN folder_before :
            IF name = ".git" \/ folder_before[name] = "file"
            THEN name \in DOMAIN folder /\ folder[name] = folder_before[name]
            ELSE name \notin DOMAIN folder

\* the folder had .git, two other directories and two files; the directories are gone
C29_Witness ==
    /\ op = "_empty_folder"
    /\ opc = "returned"
    /\ DOMAIN folder_before = {".git", "code", "data", "README.md", ".zenodo"}
    /\ folder_before["data"] = "dir"
    /\ DOMAIN folder = {".git", "README.md", ".zenodo"}

\* the cookie file _get_cookie found was missing, or its expiration date is in the past
MissingOrExpired == cookie_before = PyAbsent \/ Expired(cookie_before, now)

\* C30: _get_cookie never returns the value of an expired session cookie: whenever the
\* stored cookie file is missing or its expiration date is in the past, a new cookie is
\* created and stored before a value is returned, and the value returned is the newly
\* stored one.
C30_NoExpiredCookieReturned ==
    op = "_get_cookie" /\ opc = "returned" =>
        /\ cookie_value = PyStr(cookie_file.value)
        /\ MissingOrExpired =>
              /\ cookies_stored > 0
              /\ cookie_file # cookie_before
        /\ cookie_before # PyAbsent /\ cookie_value = PyStr(cookie_before.value) =>
              ~Expired(cookie_before, now)

\* C30, as far as the code goes: a value returned is the one the file holds; with no
\* file a cookie was stored first; and a cookie that has not expired is returned as it is
C30_StoredCookieReturned ==
    op = "_get_cookie" /\ opc = "returned" =>
        /\ cookie_value = PyStr(cookie_file.value)
        /\ cookie_before = PyAbsent => cookies_stored > 0 /\ cookie_file # cookie_before
        /\ cookie_before # PyAbsent /\ ~Expired(cookie_before, now) =>
              cookie_file = cookie_before /\ cookies_stored = 0

====
